---- MODULE Spec2Model ----
(***************************************************************************)
(* Model of the tabbed error notebook (EdsacErrorNotebook.c) and of the    *)
(* glue in ui.c that drives it.  The registry of open tabs is the GSList   *)
(* open_tabs_list of LinkyBuffers; the GtkNotebook that displays them is   *)
(* modelled by the sequence of its pages and its current page.             *)
(***************************************************************************)
EXTENDS Integers, Sequences, FiniteSets, TLC

\* ------------------------------------------------------------------ bounds
MaxRack == 1
MaxChassis == 2
MaxValve == 2
MaxTabs == 3
MaxErrors == 1
MaxAnyTabs == 2
MaxRows == 2
MaxUiRows == 1

RackNums == 1..MaxRack
ChassisNums == 1..MaxChassis
ValveNums == 1..MaxValve

\* ------------------------------------------------------------- data model
\* A field of a Clickable that the code never initialised (malloc'd or stack
\* memory).  A read of such a field is resolved nondeterministically where
\* the read decides anything (edsac_error_notebook_close_node).
Undef == -1

\* valve_no of a SearchResult that names no valve (any negative number)
NoValve == -1

\* The Clickables the program constructs.
ClickableAll == [type |-> "ALL", rack_num |-> Undef, chassis_num |-> Undef, valve_num |-> Undef]
ClickableRack(r) == [type |-> "RACK", rack_num |-> r, chassis_num |-> Undef, valve_num |-> Undef]
ClickableChassis(r, c) == [type |-> "CHASSIS", rack_num |-> r, chassis_num |-> c, valve_num |-> Undef]
ClickableValve(r, c, v) == [type |-> "VALVE", rack_num |-> r, chassis_num |-> c, valve_num |-> v]

Clickables ==
    {ClickableAll}
    \cup {ClickableRack(r) : r \in RackNums}
    \cup {ClickableChassis(r, c) : r \in RackNums, c \in ChassisNums}
    \cup {ClickableValve(x[1], x[2], x[3]) : x \in RackNums \X ChassisNums \X ValveNums}

VARIABLES
    open_tabs_list,   \* priv->open_tabs_list: sequence of LinkyBuffers
    pages,            \* the notebook's pages, in tab order (see PageOf)
    current_page,     \* gtk_notebook_get_current_page: 0-based, -1 when none
    bar,              \* num_errors last pushed on the status bar by update_bar
    window_closed,    \* gtk_window_close was requested on the top-level window
    db,               \* the error store: sequence of error records
    show_disabled,    \* the store's flag: disabled errors are found and counted
    hide_disabled,    \* the state of the "Hide Disabled" action of the View menu
    menu,             \* the error id of the menu desc_clicked popped up, 0: none
    stdout,           \* what the handler that ran last printed (puts, g_print)
    queried,          \* the descriptions the handler that ran last passed to
                      \* search_clickable, in the order of the calls
    refreshed,        \* what each update_tab of the handler that ran last found,
                      \* freed and allocated, in the order of the calls
    scanned,          \* the list items the scan of close_node looked at when it
                      \* ran last, in order, and whether it closed them
    last              \* history: the operation that ran last, its argument, and
                      \* the tabs' descriptions and the current page before it

vars == <<open_tabs_list, pages, current_page, bar, window_closed, db, show_disabled,
          hide_disabled, menu, stdout, queried, refreshed, scanned, last>>

\* ------------------------------------------------------------ the store
\* An error record: id, rack_no, chassis_no, valve_no (negative: no valve),
\* message (its characters), enabled.
Message == <<"h", "o", "t">>

\* Does error e fall under the filter d?
clickable_matches(d, e) ==
    CASE d.type = "ALL" -> TRUE
      [] d.type = "RACK" -> e.rack_no = d.rack_num
      [] d.type = "CHASSIS" -> e.rack_no = d.rack_num /\ e.chassis_no = d.chassis_num
      [] d.type = "VALVE" -> e.rack_no = d.rack_num /\ e.chassis_no = d.chassis_num
                             /\ e.valve_no = d.valve_num
      [] OTHER -> FALSE

RECURSIVE SelectSeqBy(_, _)
SelectSeqBy(s, d) ==
    IF s = <<>> THEN <<>>
    ELSE IF clickable_matches(d, Head(s))
         THEN <<Head(s)>> \o SelectSeqBy(Tail(s), d)
         ELSE SelectSeqBy(Tail(s), d)

\* search_clickable: the errors under filter d, in store order
search_clickable(store, d) == SelectSeqBy(store, d)

\* count_clickable: how many errors the store holds under filter d
count_clickable(store, d) == Len(search_clickable(store, d))

\* the errors of the store that the searches and counts go through: all of
\* them, or the enabled ones while disabled errors are not shown
shown(store, show) == IF show THEN store ELSE SelectSeq(store, LAMBDA e : e.enabled)

\* error_toggle_disabled: the error with this id is disabled if it was
\* enabled, and enabled if it was disabled
error_toggle_disabled(store, id) ==
    [k \in 1..Len(store) |->
        IF store[k].id = id THEN [store[k] EXCEPT !.enabled = ~@] ELSE store[k]]

\* ---------------------------------------------------------- Clickable
\* (variant) the valves of two VALVE Clickables are compared
clickable_compare_with_valve(a, b) ==
    IF a.type # b.type THEN FALSE
    ELSE IF a.type = "ALL" THEN TRUE
    ELSE LET rack_num == (a.rack_num = b.rack_num)
             chassis_num == (a.chassis_num = b.chassis_num)
             valve_num == (a.valve_num = b.valve_num)
         IN  IF a.type = "RACK" /\ rack_num THEN TRUE
             ELSE IF a.type = "CHASSIS" /\ rack_num /\ chassis_num THEN TRUE
             ELSE IF a.type = "VALVE" /\ rack_num /\ chassis_num /\ valve_num THEN TRUE
             ELSE FALSE

\* (variant) two CHASSIS Clickables of the same rack are equal
clickable_compare_chassis_by_rack(a, b) ==
    IF a.type # b.type THEN FALSE
    ELSE IF a.type = "ALL" THEN TRUE
    ELSE LET rack_num == (a.rack_num = b.rack_num)
             chassis_num == (a.chassis_num = b.chassis_num)
             valve_num == (a.chassis_num = b.chassis_num)
         IN  IF a.type = "RACK" /\ rack_num THEN TRUE
             ELSE IF a.type = "CHASSIS" /\ rack_num THEN TRUE
             ELSE IF a.type = "VALVE" /\ rack_num /\ chassis_num /\ valve_num THEN TRUE
             ELSE FALSE

\* are two Clickables equal? Ignores undefined fields.
clickable_compare(a, b) ==
    IF a.type # b.type THEN FALSE
    ELSE IF a.type = "ALL" THEN TRUE
    ELSE LET rack_num == (a.rack_num = b.rack_num)
             chassis_num == (a.chassis_num = b.chassis_num)
             valve_num == (a.chassis_num = b.chassis_num)
         IN  IF a.type = "RACK" /\ rack_num THEN TRUE
             ELSE IF a.type = "CHASSIS" /\ rack_num /\ chassis_num THEN TRUE
             ELSE IF a.type = "VALVE" /\ rack_num /\ chassis_num /\ valve_num THEN TRUE
             ELSE FALSE

\* GCompareFunc: 0 is equal
open_tabs_list_compare_by_desc(A, B) ==
    IF clickable_compare(A.description, B.description) THEN 0 ELSE 1

open_tabs_list_compare_by_id(A, B) == A.page_id - B.page_id

open_tabs_list_search_by_id(linky_buffer, id) ==
    IF linky_buffer.page_id = id THEN 0 ELSE 1

\* g_slist_find_custom with open_tabs_list_compare_by_desc: the position of the
\* first element equal to data, 0 when there is none
RECURSIVE FindByDescFrom(_, _, _)
FindByDescFrom(list, data, i) ==
    IF i > Len(list) THEN 0
    ELSE IF open_tabs_list_compare_by_desc(list[i], data) = 0 THEN i
    ELSE FindByDescFrom(list, data, i + 1)

find_by_desc(list, data) == FindByDescFrom(list, data, 1)

RECURSIVE FindByIdFrom(_, _, _)
FindByIdFrom(list, id, i) ==
    IF i > Len(list) THEN 0
    ELSE IF open_tabs_list_search_by_id(list[i], id) = 0 THEN i
    ELSE FindByIdFrom(list, id, i + 1)

\* g_slist_find_custom with open_tabs_list_search_by_id
find_by_id(list, id) == FindByIdFrom(list, id, 1)

RECURSIVE FindByIdCompareFrom(_, _, _)
FindByIdCompareFrom(list, page_num, i) ==
    IF i > Len(list) THEN 0
    ELSE IF open_tabs_list_compare_by_id(list[i], [page_id |-> page_num]) = 0 THEN i
    ELSE FindByIdCompareFrom(list, page_num, i + 1)

\* g_slist_find_custom with open_tabs_list_compare_by_id (close_button_handler)
FindByIdCompare(list, page_num) == FindByIdCompareFrom(list, page_num, 1)

\* g_slist_insert_sorted with open_tabs_list_compare_by_id: before the first
\* element that does not compare below the new one
RECURSIVE InsertPos(_, _, _)
InsertPos(list, lb, i) ==
    IF i > Len(list) THEN i
    ELSE IF open_tabs_list_compare_by_id(lb, list[i]) > 0 THEN InsertPos(list, lb, i + 1)
    ELSE i

\* (variant) g_slist_prepend: the new element comes first
g_slist_prepend(list, lb) == <<lb>> \o list

g_slist_insert_sorted(list, lb) ==
    LET p == InsertPos(list, lb, 1)
    IN  SubSeq(list, 1, p - 1) \o <<lb>> \o SubSeq(list, p, Len(list))

\* g_slist_delete_link: the list without the link at position pos
g_slist_delete_link(list, pos) ==
    SubSeq(list, 1, pos - 1) \o SubSeq(list, pos + 1, Len(list))

\* ------------------------------------------------------ status bar (ui.c)
\* The notebook-and-window state the handlers work on, as one record:
\*   list   priv->open_tabs_list        pages  the notebook's pages
\*   cur    the notebook's current page bar    the status bar's num_errors
\*   closed gtk_window_close requested  out    the lines printed so far
\*   queried the descriptions passed to search_clickable so far
\*   refreshed what each update_tab so far found, freed and allocated
\*   scanned the list items the scan of close_node looked at so far
State(list, pgs, cur, b, closed) ==
    [list |-> list, pages |-> pgs, cur |-> cur, bar |-> b, closed |-> closed, out |-> <<>>,
     queried |-> <<>>, refreshed |-> <<>>, scanned |-> <<>>]

\* (variant) a page without a tab counts as a page without errors
get_error_count_zero_without_tab(st, store) ==
    LET cur == st.cur
    IN  IF cur = -1 THEN -1
        ELSE LET result == find_by_id(st.list, cur)
             IN  IF result = 0 THEN 0
                 ELSE count_clickable(store, st.list[result].description)

\* (variant) the count is the number of rows the tab rendered last
get_error_count_of_rendered_rows(st, store) ==
    LET cur == st.cur
    IN  IF cur = -1 THEN -1
        ELSE LET result == find_by_id(st.list, cur)
             IN  IF result = 0 THEN -1
                 ELSE Len(st.list[result].g_string_list)

\* get the error count for the currently displayed page
edsac_error_notebook_get_error_count(st, store) ==
    LET cur == st.cur
    IN  IF cur = -1 THEN -1
        ELSE LET result == find_by_id(st.list, cur)
             IN  IF result = 0 THEN -1
                 ELSE count_clickable(store, st.list[result].description)

\* what edsac_error_notebook_get_error_count prints on its way: a sequence of
\* lines, a line being the sequence of the pieces printed
get_error_count_puts(st) ==
    IF st.cur = -1 THEN << <<"bad current page">> >>
    ELSE IF find_by_id(st.list, st.cur) = 0 THEN << <<"current page not found">> >>
    ELSE <<>>

\* the message update_bar makes of num_errors
StatusMessage(num_errors) ==
    IF num_errors > 1 THEN <<"Showing ", num_errors, " errors">>
    ELSE IF 1 = num_errors THEN <<"Showing 1 error">>
    ELSE IF 0 = num_errors THEN <<"No errors in this filter">>
    ELSE <<"Failure to count errors (something is probably very wrong)">>

\* update_bar: the status bar shows the count for the current page
update_bar(st, store) ==
    [st EXCEPT !.bar = edsac_error_notebook_get_error_count(st, store),
               !.out = @ \o get_error_count_puts(st)]

\* --------------------------------------------------------- GtkNotebook
\* The notebook makes page n current and emits switch-page, to which
\* update_bar is connected (after the default handler).  No signal when the
\* page is current already.
switch_page(st, n, store) ==
    IF st.cur = n THEN st
    ELSE update_bar([st EXCEPT !.cur = n], store)

\* gtk_notebook_set_current_page: -1 means the last page; a page number
\* that is out of range changes nothing
gtk_notebook_set_current_page(st, page_num, store) ==
    LET n == IF page_num < 0 THEN Len(st.pages) - 1 ELSE page_num
    IN  IF n >= 0 /\ n < Len(st.pages) THEN switch_page(st, n, store) ELSE st

\* gtk_notebook_remove_page: -1 means the last page.  When the page removed
\* was the current one the notebook switches to the page before it, or else
\* to the one after it; with no page left there is no current page.
gtk_notebook_remove_page(st, page_num, store) ==
    LET n == IF page_num < 0 THEN Len(st.pages) - 1 ELSE page_num
    IN  IF ~(n >= 0 /\ n < Len(st.pages)) THEN st
        ELSE LET rest == SubSeq(st.pages, 1, n) \o SubSeq(st.pages, n + 2, Len(st.pages))
                 removed == [st EXCEPT !.pages = rest]
             IN  IF st.cur = n
                 THEN IF rest = <<>> THEN [removed EXCEPT !.cur = -1]
                      ELSE update_bar([removed EXCEPT !.cur = IF n > 0 THEN n - 1 ELSE 0], store)
                 ELSE IF st.cur > n THEN [removed EXCEPT !.cur = st.cur - 1]
                 ELSE removed

\* ---------------------------------------------------------- LinkyBuffer
\* the tab's title, as the pieces g_string_printf puts together
TitleOf(data) ==
    CASE data.type = "ALL" -> <<"All">>
      [] data.type = "RACK" -> <<"Rack ", data.rack_num>>
      [] data.type = "CHASSIS" -> <<"Rack ", data.rack_num, ", Chassis: ", data.chassis_num>>
      [] data.type = "VALVE" -> <<"Rack ", data.rack_num, ", Chassis ", data.chassis_num,
                                  ", Valve: ", data.valve_num>>
      [] OTHER -> <<"(Unknown)">>

\* The page widget made for a LinkyBuffer (scrolled window, text view on the
\* LinkyBuffer's text buffer, tab label with its title): named by the
\* description the LinkyBuffer was made for.
PageOf(linky_buffer) == linky_buffer.description

\* creates a new LinkyBuffer: empty text, page_id -1, the description copied
\*   buffer         the text of the GtkTextBuffer, character by character
\*   tags           the tags applied to ranges of the text, in the order applied
\*   g_string_list  the message strings to free, clickables the Clickables to free
new_linky_buffer(desc) ==
    [description |-> desc, page_id |-> -1, title |-> <<>>,
     buffer |-> <<>>, tags |-> <<>>, g_string_list |-> <<>>, clickables |-> <<>>]

\* "%i": the decimal digits of a number, with its sign
Digits == <<"0", "1", "2", "3", "4", "5", "6", "7", "8", "9">>

RECURSIVE Decimal(_)
Decimal(n) ==
    IF n < 10 THEN <<Digits[n + 1]>> ELSE Decimal(n \div 10) \o <<Digits[(n % 10) + 1]>>

FormatInt(i) == IF i < 0 THEN <<"-">> \o Decimal(-i) ELSE Decimal(i)

\* the format strings of append_linky_text_buffer
RackPrefix(rack_no) == <<"R", "a", "c", "k", ":", " ">> \o FormatInt(rack_no) \o <<",", " ">>

ChassisPrefix(chassis_no) ==
    <<"C", "h", "a", "s", "s", "i", "s", ":", " ">> \o FormatInt(chassis_no) \o <<",", " ">>

ValvePrefix(valve_no) ==
    <<"V", "a", "l", "v", "e", ":", " ">> \o FormatInt(valve_no) \o <<":", " ">>

\* adds a hyperlink to a text buffer: a tag over the offsets start_pos up to
\* end_pos, with link_clicked connected to it for data
add_link(start_pos, end_pos, tags, data) ==
    Append(tags, [kind |-> "link", start |-> start_pos, end |-> end_pos,
                  data |-> data, foreground |-> "blue"])

\* (variant) the description tag starts where the valve prefix starts
append_with_description_from_valve_start(linky_buffer, data) ==
    LET offset == Len(linky_buffer.buffer)
        message1 == RackPrefix(data.rack_no)
        rack_start == offset
        rack_end == offset + Len(message1) - 2
        chassis_start == offset + Len(message1)
        message2 == message1 \o ChassisPrefix(data.chassis_no)
        chassis_end == offset + Len(message2) - 2
        valve_start == offset + Len(message2)
        message3 == IF data.valve_no >= 0 THEN message2 \o ValvePrefix(data.valve_no)
                    ELSE message2
        valve_end == offset + Len(message3) - 2
        message == message3 \o data.message \o <<"\n">>
        inserted == linky_buffer.buffer \o message
        rack_data == ClickableRack(data.rack_no)
        chassis_data == ClickableChassis(data.rack_no, data.chassis_no)
        valve_data == ClickableValve(data.rack_no, data.chassis_no, data.valve_no)
        description == [kind |-> "description", start |-> valve_start, end |-> Len(inserted),
                        data |-> data.id,
                        foreground |-> IF ~data.enabled THEN "grey" ELSE "none"]
        tagged == Append(linky_buffer.tags, description)
        linked == add_link(chassis_start, chassis_end,
                           add_link(rack_start, rack_end, tagged, rack_data),
                           chassis_data)
    IN  [linky_buffer EXCEPT
            !.buffer = inserted,
            !.g_string_list = <<message>> \o @,
            !.clickables = (IF data.valve_no >= 0 THEN <<valve_data>> ELSE <<>>)
                           \o <<chassis_data, rack_data>> \o @,
            !.tags = IF data.valve_no >= 0
                     THEN add_link(valve_start, valve_end, linked, valve_data)
                     ELSE linked]

\* (variant) the rack link ends one character later
append_with_rack_link_over_comma(linky_buffer, data) ==
    LET offset == Len(linky_buffer.buffer)
        message1 == RackPrefix(data.rack_no)
        rack_start == offset
        rack_end == offset + Len(message1) - 1
        chassis_start == offset + Len(message1)
        message2 == message1 \o ChassisPrefix(data.chassis_no)
        chassis_end == offset + Len(message2) - 2
        valve_start == offset + Len(message2)
        message3 == IF data.valve_no >= 0 THEN message2 \o ValvePrefix(data.valve_no)
                    ELSE message2
        valve_end == offset + Len(message3) - 2
        message == message3 \o data.message \o <<"\n">>
        inserted == linky_buffer.buffer \o message
        rack_data == ClickableRack(data.rack_no)
        chassis_data == ClickableChassis(data.rack_no, data.chassis_no)
        valve_data == ClickableValve(data.rack_no, data.chassis_no, data.valve_no)
        description == [kind |-> "description", start |-> valve_end, end |-> Len(inserted),
                        data |-> data.id,
                        foreground |-> IF ~data.enabled THEN "grey" ELSE "none"]
        tagged == Append(linky_buffer.tags, description)
        linked == add_link(chassis_start, chassis_end,
                           add_link(rack_start, rack_end, tagged, rack_data),
                           chassis_data)
    IN  [linky_buffer EXCEPT
            !.buffer = inserted,
            !.g_string_list = <<message>> \o @,
            !.clickables = (IF data.valve_no >= 0 THEN <<valve_data>> ELSE <<>>)
                           \o <<chassis_data, rack_data>> \o @,
            !.tags = IF data.valve_no >= 0
                     THEN add_link(valve_start, valve_end, linked, valve_data)
                     ELSE linked]

\* (variant) a valve is named only when its number is above 0
append_naming_valves_above_zero(linky_buffer, data) ==
    LET offset == Len(linky_buffer.buffer)
        message1 == RackPrefix(data.rack_no)
        rack_start == offset
        rack_end == offset + Len(message1) - 2
        chassis_start == offset + Len(message1)
        message2 == message1 \o ChassisPrefix(data.chassis_no)
        chassis_end == offset + Len(message2) - 2
        valve_start == offset + Len(message2)
        message3 == IF data.valve_no > 0 THEN message2 \o ValvePrefix(data.valve_no)
                    ELSE message2
        valve_end == offset + Len(message3) - 2
        message == message3 \o data.message \o <<"\n">>
        inserted == linky_buffer.buffer \o message
        rack_data == ClickableRack(data.rack_no)
        chassis_data == ClickableChassis(data.rack_no, data.chassis_no)
        valve_data == ClickableValve(data.rack_no, data.chassis_no, data.valve_no)
        description == [kind |-> "description", start |-> valve_end, end |-> Len(inserted),
                        data |-> data.id,
                        foreground |-> IF ~data.enabled THEN "grey" ELSE "none"]
        tagged == Append(linky_buffer.tags, description)
        linked == add_link(chassis_start, chassis_end,
                           add_link(rack_start, rack_end, tagged, rack_data),
                           chassis_data)
    IN  [linky_buffer EXCEPT
            !.buffer = inserted,
            !.g_string_list = <<message>> \o @,
            !.clickables = (IF data.valve_no > 0 THEN <<valve_data>> ELSE <<>>)
                           \o <<chassis_data, rack_data>> \o @,
            !.tags = IF data.valve_no > 0
                     THEN add_link(valve_start, valve_end, linked, valve_data)
                     ELSE linked]

\* appends the specified error message to the linky buffer
append_linky_text_buffer(linky_buffer, data) ==
    LET offset == Len(linky_buffer.buffer)
        message1 == RackPrefix(data.rack_no)
        rack_start == offset
        rack_end == offset + Len(message1) - 2         \* comma, space
        chassis_start == offset + Len(message1)
        message2 == message1 \o ChassisPrefix(data.chassis_no)
        chassis_end == offset + Len(message2) - 2      \* comma, space
        valve_start == offset + Len(message2)
        message3 == IF data.valve_no >= 0 THEN message2 \o ValvePrefix(data.valve_no)
                    ELSE message2
        valve_end == offset + Len(message3) - 2        \* colon, space
        message == message3 \o data.message \o <<"\n">>
        inserted == linky_buffer.buffer \o message
        \* clickable objects to describe the links in this row
        rack_data == ClickableRack(data.rack_no)
        chassis_data == ClickableChassis(data.rack_no, data.chassis_no)
        valve_data == ClickableValve(data.rack_no, data.chassis_no, data.valve_no)
        \* tag over the description, grey for a disabled item
        description == [kind |-> "description", start |-> valve_end, end |-> Len(inserted),
                        data |-> data.id,
                        foreground |-> IF ~data.enabled THEN "grey" ELSE "none"]
        tagged == Append(linky_buffer.tags, description)
        \* links to other pages
        linked == add_link(chassis_start, chassis_end,
                           add_link(rack_start, rack_end, tagged, rack_data),
                           chassis_data)
    IN  [linky_buffer EXCEPT
            !.buffer = inserted,
            !.g_string_list = <<message>> \o @,
            !.clickables = (IF data.valve_no >= 0 THEN <<valve_data>> ELSE <<>>)
                           \o <<chassis_data, rack_data>> \o @,
            !.tags = IF data.valve_no >= 0
                     THEN add_link(valve_start, valve_end, linked, valve_data)
                     ELSE linked]

\* g_list_foreach(results, insert_search_result, linky_buffer)
RECURSIVE insert_search_results(_, _)
insert_search_results(linky_buffer, results) ==
    IF results = <<>> THEN linky_buffer
    ELSE insert_search_results(append_linky_text_buffer(linky_buffer, Head(results)),
                               Tail(results))

\* (variant) the search results are appended to what the buffer holds
update_tab_without_clearing(linky_buffer, store) ==
    insert_search_results(linky_buffer, search_clickable(store, linky_buffer.description))

\* (variant) the strings and Clickables are freed, the text is not deleted
update_tab_keeping_text(linky_buffer, store) ==
    LET results == search_clickable(store, linky_buffer.description)
        freed == [linky_buffer EXCEPT !.g_string_list = <<>>, !.clickables = <<>>]
    IN  insert_search_results(freed, results)

\* (variant) the disabled search results are left out
update_tab_skipping_disabled(linky_buffer, store) ==
    LET results == search_clickable(store, linky_buffer.description)
        cleared == [linky_buffer EXCEPT !.buffer = <<>>, !.tags = <<>>,
                                        !.g_string_list = <<>>, !.clickables = <<>>]
    IN  insert_search_results(cleared, SelectSeq(results, LAMBDA e : e.enabled))

\* update_tab: the buffer is cleared and every search result appended
update_tab(linky_buffer, store) ==
    LET results == search_clickable(store, linky_buffer.description)
        cleared == [linky_buffer EXCEPT !.buffer = <<>>, !.tags = <<>>,
                                        !.g_string_list = <<>>, !.clickables = <<>>]
    IN  insert_search_results(cleared, results)

\* What one update_tab call frees and allocates, counted by kind.  It
\* deletes the text, frees every GString of g_string_list and every Clickable
\* of clickables; the tags stay in the buffer's tag table, where
\* gtk_text_buffer_create_tag put them: nothing removes a tag from it.  Then
\* every record appended inserts its text and allocates one GString, its
\* Clickables and its tags.
update_tab_heap(linky_buffer, store) ==
    LET updated == update_tab(linky_buffer, store)
    IN  [linky_buffer |-> linky_buffer,
         freed |-> [text |-> Len(linky_buffer.buffer),
                    g_string_list |-> Len(linky_buffer.g_string_list),
                    clickables |-> Len(linky_buffer.clickables),
                    tags |-> 0],
         allocated |-> [text |-> Len(updated.buffer),
                        g_string_list |-> Len(updated.g_string_list),
                        clickables |-> Len(updated.clickables),
                        tags |-> Len(updated.tags)]]

\* update_tab on the tab at list position item, the query noted
update_tab_at(st, item, store) ==
    [st EXCEPT !.list[item] = update_tab(@, store),
               !.queried = Append(@, st.list[item].description),
               !.refreshed = Append(@, update_tab_heap(st.list[item], store))]

\* g_slist_foreach(open_tabs_list, update_tab, NULL) from position item on
RECURSIVE update_from(_, _, _)
update_from(st, item, store) ==
    IF item > Len(st.list) THEN st
    ELSE update_from(update_tab_at(st, item, store), item + 1, store)

\* (variant) the tabs are updated from the last one of the list to the first
RECURSIVE update_down_from(_, _, _)
update_down_from(st, item, store) ==
    IF item < 1 THEN st
    ELSE update_down_from(update_tab_at(st, item, store), item - 1, store)

update_last_to_first(st, store) == update_down_from(st, Len(st.list), store)

\* update data to be in line with the database
edsac_error_notebook_update(st, store) == update_from(st, 1, store)

\* (variant) the page id is taken from the page count after the append
add_new_page_id_from_count(st, data, store) ==
    LET index == Len(st.pages)
        linky_buffer == [new_linky_buffer(data) EXCEPT !.title = TitleOf(data),
                                                       !.page_id = index + 1]
        appended == [st EXCEPT !.pages = Append(st.pages, PageOf(linky_buffer))]
        inserted == [appended EXCEPT
                        !.list = g_slist_insert_sorted(appended.list,
                                                       update_tab(linky_buffer, store)),
                        !.queried = Append(@, data),
                        !.refreshed = Append(@, update_tab_heap(linky_buffer, store))]
    IN  gtk_notebook_set_current_page(inserted, index, store)

\* (variant) the notebook changes to the new page before the tab is in the list
add_new_page_switching_first(st, data, store) ==
    LET index == Len(st.pages)
        linky_buffer == [new_linky_buffer(data) EXCEPT !.title = TitleOf(data),
                                                       !.page_id = index]
        appended == [st EXCEPT !.pages = Append(st.pages, PageOf(linky_buffer))]
        switched == gtk_notebook_set_current_page(appended, index, store)
    IN  [switched EXCEPT
            !.list = g_slist_insert_sorted(switched.list, update_tab(linky_buffer, store)),
            !.queried = Append(@, data),
            !.refreshed = Append(@, update_tab_heap(linky_buffer, store))]

\* add a new page to the notebook
add_new_page_to_notebook(st, data, store) ==
    LET index == Len(st.pages)      \* gtk_notebook_append_page: the new page's number
        linky_buffer == [new_linky_buffer(data) EXCEPT !.title = TitleOf(data),
                                                       !.page_id = index]
        \* the page shows the text buffer of this LinkyBuffer
        appended == [st EXCEPT !.pages = Append(st.pages, PageOf(linky_buffer))]
        inserted == [appended EXCEPT
                        !.list = g_slist_insert_sorted(appended.list,
                                                       update_tab(linky_buffer, store)),
                        !.queried = Append(@, data),
                        !.refreshed = Append(@, update_tab_heap(linky_buffer, store))]
    IN  gtk_notebook_set_current_page(inserted, index, store)

\* (variant) the page id is left as it was
dec_id_forgotten(tab_page_desc) == tab_page_desc

\* decrements the page id of something on the open tabs list
open_tabs_list_dec_id(tab_page_desc) ==
    [tab_page_desc EXCEPT !.page_id = @ - 1]

\* (variant) every tab of the list is adjusted down, not only those after
close_tab_dec_whole_list(st, tab_in_list, store) ==
    LET page_id == st.list[tab_in_list].page_id
        decremented == [i \in 1..Len(st.list) |-> open_tabs_list_dec_id(st.list[i])]
        unlinked == [st EXCEPT !.list = g_slist_delete_link(decremented, tab_in_list)]
        removed == gtk_notebook_remove_page(unlinked, page_id, store)
    IN  IF Len(removed.pages) = 0 THEN [removed EXCEPT !.closed = TRUE] ELSE removed

\* (variant) the page is removed from the notebook before the list is adjusted
close_tab_remove_page_first(st, tab_in_list, store) ==
    LET page_id == st.list[tab_in_list].page_id
        removed == gtk_notebook_remove_page(st, page_id, store)
        decremented == [i \in 1..Len(removed.list) |->
                           IF i >= tab_in_list THEN open_tabs_list_dec_id(removed.list[i])
                           ELSE removed.list[i]]
        unlinked == [removed EXCEPT !.list = g_slist_delete_link(decremented, tab_in_list)]
    IN  IF Len(unlinked.pages) = 0 THEN [unlinked EXCEPT !.closed = TRUE] ELSE unlinked

\* (variant) the pages are counted before the page is removed
close_tab_counts_before_remove(st, tab_in_list, store) ==
    LET page_id == st.list[tab_in_list].page_id
        decremented == [i \in 1..Len(st.list) |->
                           IF i >= tab_in_list THEN open_tabs_list_dec_id(st.list[i])
                           ELSE st.list[i]]
        unlinked == [st EXCEPT !.list = g_slist_delete_link(decremented, tab_in_list)]
        removed == gtk_notebook_remove_page(unlinked, page_id, store)
    IN  IF Len(st.pages) = 0 THEN [removed EXCEPT !.closed = TRUE] ELSE removed

\* (variant) the first link of the list is removed, whichever tab is closed
close_tab_unlinking_head(st, tab_in_list, store) ==
    LET page_id == st.list[tab_in_list].page_id
        decremented == [i \in 1..Len(st.list) |->
                           IF i >= tab_in_list THEN open_tabs_list_dec_id(st.list[i])
                           ELSE st.list[i]]
        unlinked == [st EXCEPT !.list = g_slist_delete_link(decremented, 1)]
        removed == gtk_notebook_remove_page(unlinked, page_id, store)
    IN  IF Len(removed.pages) = 0 THEN [removed EXCEPT !.closed = TRUE] ELSE removed

close_tab(st, tab_in_list, store) ==
    LET page_id == st.list[tab_in_list].page_id
        \* any tabs after this one need to have their id adjusted down by 1
        decremented == [i \in 1..Len(st.list) |->
                           IF i >= tab_in_list THEN open_tabs_list_dec_id(st.list[i])
                           ELSE st.list[i]]
        \* remove tab from the list
        unlinked == [st EXCEPT !.list = g_slist_delete_link(decremented, tab_in_list)]
        \* remove page from notebook
        removed == gtk_notebook_remove_page(unlinked, page_id, store)
    IN  \* close the window if the last page is closed
        IF Len(removed.pages) = 0 THEN [removed EXCEPT !.closed = TRUE] ELSE removed


\* ------------------------------------------------------- public methods
\* (variant) the open tabs are not searched
show_page_without_lookup(st, data, store) == add_new_page_to_notebook(st, data, store)

\* (variant) the tab found is updated from the store before it is shown
show_page_refreshing_found(st, data, store) ==
    LET found == find_by_desc(st.list, [description |-> data, page_id |-> -1])
    IN  IF found # 0
        THEN gtk_notebook_set_current_page(
                 [st EXCEPT !.list[found] = update_tab(st.list[found], store)],
                 st.list[found].page_id, store)
        ELSE add_new_page_to_notebook(st, data, store)

\* (variant) the tab found is shown by its position in the list counted from 1
show_page_by_list_position(st, data, store) ==
    LET found == find_by_desc(st.list, [description |-> data, page_id |-> -1])
    IN  IF found # 0
        THEN gtk_notebook_set_current_page(st, found, store)
        ELSE add_new_page_to_notebook(st, data, store)

edsac_error_notebook_show_page(st, data, store) ==
    LET found == find_by_desc(st.list, [description |-> data, page_id |-> -1])
    IN  IF found # 0
        THEN gtk_notebook_set_current_page(st, st.list[found].page_id, store)
        ELSE add_new_page_to_notebook(st, data, store)

\* A comparison of a description field with a number.  The field may never
\* have been initialised: the comparison then goes either way, as lucky says.
field_equals(field, number, lucky) ==
    IF field = Undef THEN lucky ELSE field = number

\* The scan of edsac_error_notebook_close_node from list position item on.
\* hit: the descriptions whose uninitialised fields happen to hold the
\* numbers asked for.
RECURSIVE close_node_scan(_, _, _, _, _, _)
close_node_scan(st, item, rack_no, chassis_no, hit, store) ==
    IF item > Len(st.list) THEN st
    ELSE LET linky_buffer == st.list[item]
             lucky == linky_buffer.description \in hit
             closing == /\ field_equals(linky_buffer.description.rack_num, rack_no, lucky)
                        /\ field_equals(linky_buffer.description.chassis_num, chassis_no, lucky)
             looked == [st EXCEPT !.scanned = Append(@, [item |-> item,
                                                         description |-> linky_buffer.description,
                                                         closed |-> closing])]
         IN  IF closing
             THEN \* this tab needs closing; search back from the beginning
                  close_node_scan(close_tab(looked, item, store), 1, rack_no, chassis_no, hit,
                                  store)
             ELSE close_node_scan(looked, item + 1, rack_no, chassis_no, hit, store)

\* (variant) the scan goes on with the next item after a close
RECURSIVE close_node_scan_on(_, _, _, _, _, _)
close_node_scan_on(st, item, rack_no, chassis_no, hit, store) ==
    IF item > Len(st.list) THEN st
    ELSE LET linky_buffer == st.list[item]
             lucky == linky_buffer.description \in hit
             closing == /\ field_equals(linky_buffer.description.rack_num, rack_no, lucky)
                        /\ field_equals(linky_buffer.description.chassis_num, chassis_no, lucky)
             looked == [st EXCEPT !.scanned = Append(@, [item |-> item,
                                                         description |-> linky_buffer.description,
                                                         closed |-> closing])]
         IN  IF closing
             THEN close_node_scan_on(close_tab(looked, item, store), item + 1,
                                     rack_no, chassis_no, hit, store)
             ELSE close_node_scan_on(looked, item + 1, rack_no, chassis_no, hit, store)

close_node_without_restart(st, rack_no, chassis_no, hit, store) ==
    close_node_scan_on(st, 1, rack_no, chassis_no, hit, store)

edsac_error_notebook_close_node(st, rack_no, chassis_no, hit, store) ==
    close_node_scan(st, 1, rack_no, chassis_no, hit, store)

\* (variant) a page number that no tab has closes the first tab of the list
close_button_closing_head(st, contents, store) ==
    LET page_num == IF contents \in 1..Len(st.pages) THEN contents - 1 ELSE -1
    IN  IF page_num = -1 THEN st
        ELSE LET result == FindByIdCompare(st.list, page_num)
             IN  IF result = 0
                 THEN IF st.list = <<>> THEN st ELSE close_tab(st, 1, store)
                 ELSE close_tab(st, result, store)

\* handler for the close button on tab labels; contents is the page's position
close_button_handler(st, contents, store) ==
    LET page_num == IF contents \in 1..Len(st.pages) THEN contents - 1 ELSE -1
    IN  IF page_num = -1 THEN st
        ELSE LET result == FindByIdCompare(st.list, page_num)
             IN  IF result = 0
                 THEN [st EXCEPT !.out = Append(@, <<"Closing a tab which was not open! id=",
                                                     page_num>>)]
                 ELSE close_tab(st, result, store)

\* called when gtk gets around to updating the gui
gui_update(st, store) == update_bar(edsac_error_notebook_update(st, store), store)

\* a GdkEvent: its type and, of a button event, its button
Events ==
    {[type |-> "GDK_BUTTON_PRESS", button |-> 1], [type |-> "GDK_BUTTON_PRESS", button |-> 3],
     [type |-> "GDK_BUTTON_RELEASE", button |-> 1], [type |-> "GDK_MOTION_NOTIFY", button |-> 0]}

\* (variant) a press of any button follows the link
link_clicked_on_any_button(st, event, data, store) ==
    IF event.type = "GDK_BUTTON_PRESS"
    THEN edsac_error_notebook_show_page(st, data, store)
    ELSE st

\* handler for when a link text tag is clicked
link_clicked(st, event, data, store) ==
    IF event.type = "GDK_BUTTON_PRESS" /\ event.button = 1
    THEN edsac_error_notebook_show_page(st, data, store)
    ELSE st

\* handler for when a description is clicked: the menu popped up afterwards,
\* its "Toggle Disabled" item connected to disable_click with error_id
desc_clicked(popped, event, error_id) ==
    IF event.type = "GDK_BUTTON_PRESS" /\ event.button = 1 THEN error_id ELSE popped

\* (variant) the gui is updated before the error is toggled
disable_click_updating_first(st, store, show, id) ==
    [gui |-> gui_update(st, shown(store, show)), db |-> error_toggle_disabled(store, id)]

\* disable_click: the notebook and the store after it
disable_click(st, store, show, id) ==
    LET toggled == error_toggle_disabled(store, id)
    IN  [gui |-> gui_update(st, shown(toggled, show)), db |-> toggled]

\* (variant) "Delete" of a node updates the gui before it closes the tabs
node_delete_updating_first(st, rack_no, chassis_no, hit, store) ==
    LET updated == gui_update(st, store)
        printed == [updated EXCEPT !.out = Append(@, <<"Node ", rack_no, chassis_no, " removed">>)]
    IN  edsac_error_notebook_close_node(printed, rack_no, chassis_no, hit, store)

\* node_delete_activate after remove_node: the tabs of the node are closed,
\* the removal is printed and the gui updated (node_cleanup_network and
\* update_nodes_menu touch neither the notebook nor the status bar)
node_delete_activate(st, rack_no, chassis_no, hit, store) ==
    LET closed == edsac_error_notebook_close_node(st, rack_no, chassis_no, hit, store)
        printed == [closed EXCEPT !.out = Append(@, <<"Node ", rack_no, chassis_no, " removed">>)]
    IN  gui_update(printed, store)

\* (variant) "Show" of a node shows the page of all errors
node_show_all(st, rack_no, chassis_no, store) ==
    edsac_error_notebook_show_page(st, ClickableAll, store)

\* node_show_activate: the page of the node is shown; search.valve_num is
\* not set
node_show_activate(st, rack_no, chassis_no, store) ==
    edsac_error_notebook_show_page(st, ClickableChassis(rack_no, chassis_no), store)

\* (variant) the gui is updated before the store's flag is set
hide_disabled_updating_first(st, store, show, hide) ==
    [gui |-> gui_update(st, shown(store, show)), show |-> hide, hide |-> ~hide]

\* hide_disabled_change_state: the action's state is toggled, the store's
\* flag set to what the state was, and the gui updated
hide_disabled_change_state(st, store, show, hide) ==
    [gui |-> gui_update(st, shown(store, hide)), show |-> hide, hide |-> ~hide]

\* ------------------------------------------------------------- the system
Here == State(open_tabs_list, pages, current_page, bar, window_closed)

Becomes(st) ==
    /\ open_tabs_list' = st.list
    /\ pages' = st.pages
    /\ current_page' = st.cur
    /\ bar' = st.bar
    /\ window_closed' = st.closed
    /\ stdout' = st.out
    /\ queried' = st.queried
    /\ refreshed' = st.refreshed
    /\ scanned' = st.scanned

DescriptionsOf(list) == [i \in 1..Len(list) |-> list[i].description]

Range(s) == {s[i] : i \in 1..Len(s)}

Ran(op, arg) ==
    [op |-> op, arg |-> arg, before |-> DescriptionsOf(open_tabs_list), cur |-> current_page]

\* activate: the notebook is constructed with its "All" page
\* (edsac_error_notebook_instance_init), then the status bar is made and
\* update_bar called.  The store holds no error yet.
Init ==
    /\ db = <<>>
    /\ LET st == update_bar(add_new_page_to_notebook(State(<<>>, <<>>, -1, -1, FALSE),
                                                     ClickableAll, <<>>), <<>>)
       IN  /\ open_tabs_list = st.list
           /\ pages = st.pages
           /\ current_page = st.cur
           /\ bar = st.bar
           /\ window_closed = st.closed
           /\ stdout = st.out
           /\ queried = st.queried
           /\ refreshed = st.refreshed
           /\ scanned = st.scanned
    /\ last = [op |-> "activate", arg |-> 0, before |-> <<>>, cur |-> -1]
    /\ show_disabled = TRUE
    /\ hide_disabled = TRUE
    /\ menu = 0

\* Every handler below is guarded by ~window_closed: gtk_window_close on the
\* application's only window ends the application.

\* edsac_error_notebook_show_page(data), from a link or from the Nodes menu
ShowPage(data) ==
    /\ ~window_closed
    /\ \/ find_by_desc(open_tabs_list, [description |-> data, page_id |-> -1]) # 0
       \/ Len(open_tabs_list) < MaxTabs
    /\ Becomes(edsac_error_notebook_show_page(Here, data, shown(db, show_disabled)))
    /\ last' = Ran("show_page", data)
    /\ UNCHANGED <<db, show_disabled, hide_disabled, menu>>

\* the close button of the tab at position contents is pressed
CloseButton(contents) ==
    /\ ~window_closed
    /\ Becomes(close_button_handler(Here, contents, shown(db, show_disabled)))
    /\ last' = Ran("close_button", contents - 1)
    /\ UNCHANGED <<db, show_disabled, hide_disabled, menu>>

\* edsac_error_notebook_close_node(rack_no, chassis_no)
CloseNode(rack_no, chassis_no) ==
    /\ ~window_closed
    /\ \E hit \in SUBSET {d \in Range(DescriptionsOf(open_tabs_list)) :
                               d.rack_num = Undef \/ d.chassis_num = Undef} :
           Becomes(edsac_error_notebook_close_node(Here, rack_no, chassis_no, hit,
                                                   shown(db, show_disabled)))
    /\ last' = Ran("close_node", <<rack_no, chassis_no>>)
    /\ UNCHANGED <<db, show_disabled, hide_disabled, menu>>

\* gui_update, from the timer or after a change of the store
GuiUpdate ==
    /\ ~window_closed
    /\ Becomes(gui_update(Here, shown(db, show_disabled)))
    /\ last' = Ran("gui_update", 0)
    /\ UNCHANGED <<db, show_disabled, hide_disabled, menu>>

\* the user picks the tab at page number n
SelectTab(n) ==
    /\ ~window_closed
    /\ Becomes(gtk_notebook_set_current_page(Here, n, shown(db, show_disabled)))
    /\ last' = [op |-> "select_tab", arg |-> 0, before |-> <<>>, cur |-> -1]
    /\ UNCHANGED <<db, show_disabled, hide_disabled, menu>>

\* the server records an error in the store
AddError(rack_no, chassis_no, valve_no) ==
    /\ ~window_closed
    /\ Len(db) < MaxErrors
    /\ db' = Append(db, [id |-> Len(db) + 1, rack_no |-> rack_no, chassis_no |-> chassis_no,
                         valve_no |-> valve_no, message |-> Message, enabled |-> TRUE])
    /\ last' = Ran("add_error", 0)
    /\ stdout' = <<>>
    /\ queried' = <<>>
    /\ refreshed' = <<>>
    /\ scanned' = <<>>
    /\ UNCHANGED <<open_tabs_list, pages, current_page, bar, window_closed, show_disabled,
                   hide_disabled, menu>>

Next ==
    \/ \E data \in Clickables : ShowPage(data)
    \/ \E contents \in 1..Len(pages) : CloseButton(contents)
    \/ \E rack_no \in RackNums, chassis_no \in ChassisNums : CloseNode(rack_no, chassis_no)
    \/ GuiUpdate
    \/ \E n \in 0..(Len(pages) - 1) : SelectTab(n)
    \/ \E rack_no \in RackNums, chassis_no \in ChassisNums, valve_no \in ValveNums \cup {NoValve} :
           AddError(rack_no, chassis_no, valve_no)

Spec == Init /\ [][Next]_vars

\* the sequences over S of length up to n
SeqsUpTo(S, n) == UNION {[1..k -> S] : k \in 0..n}

\* ------------------------------------------------ any two Clickables
\* Clickables with every field holding a number, as memory does whether the
\* program set the field or not.
PayloadClickables ==
    [type : {"ALL", "RACK", "CHASSIS", "VALVE"},
     rack_num : RackNums \cup {MaxRack + 1}, chassis_num : ChassisNums, valve_num : ValveNums]

\* the notebook with one tab, made for any Clickable
CompareInit ==
    /\ db = <<>>
    /\ \E a \in PayloadClickables :
           LET st == update_bar(add_new_page_to_notebook(State(<<>>, <<>>, -1, -1, FALSE),
                                                         a, <<>>), <<>>)
           IN  /\ open_tabs_list = st.list
               /\ pages = st.pages
               /\ current_page = st.cur
               /\ bar = st.bar
               /\ window_closed = st.closed
               /\ stdout = st.out
               /\ queried = st.queried
               /\ refreshed = st.refreshed
               /\ scanned = st.scanned
    /\ last = [op |-> "activate", arg |-> 0, before |-> <<>>, cur |-> -1]
    /\ show_disabled = TRUE
    /\ hide_disabled = TRUE
    /\ menu = 0

\* show_page for any Clickable while that one tab is open: its description
\* is compared with the Clickable
CompareNext ==
    \E data \in PayloadClickables : Len(open_tabs_list) = 1 /\ ShowPage(data)

CompareSpec == CompareInit /\ [][CompareNext]_vars

\* ------------------------------------------------- any store rendered
\* The notebook with one tab and a store of up to MaxRows records: racks and
\* valves of one and of two digits, valve 0, records without a valve, an
\* empty message, disabled records.
Overheat == <<"O", "v", "e", "r", "h", "e", "a", "t">>

RenderDescriptions == {ClickableAll, ClickableRack(3), ClickableChassis(10, 5)}

RenderRecords ==
    [rack_no : {3, 10}, chassis_no : {5}, valve_no : {NoValve, 0, 12},
     message : {<<>>, Overheat}, enabled : BOOLEAN]

\* the records numbered by the store: id is the position
Numbered(records) ==
    [k \in 1..Len(records) |->
        [id |-> k, rack_no |-> records[k].rack_no, chassis_no |-> records[k].chassis_no,
         valve_no |-> records[k].valve_no, message |-> records[k].message,
         enabled |-> records[k].enabled]]

RenderInit ==
    /\ db \in {Numbered(records) : records \in SeqsUpTo(RenderRecords, MaxRows)}
    /\ \E a \in RenderDescriptions :
           LET st == update_bar(add_new_page_to_notebook(State(<<>>, <<>>, -1, -1, FALSE),
                                                         a, <<>>), <<>>)
           IN  /\ open_tabs_list = st.list
               /\ pages = st.pages
               /\ current_page = st.cur
               /\ bar = st.bar
               /\ window_closed = st.closed
               /\ stdout = st.out
               /\ queried = st.queried
               /\ refreshed = st.refreshed
               /\ scanned = st.scanned
    /\ last = [op |-> "activate", arg |-> 0, before |-> <<>>, cur |-> -1]
    /\ show_disabled = TRUE
    /\ hide_disabled = TRUE
    /\ menu = 0

RenderNext == GuiUpdate

RenderSpec == RenderInit /\ [][RenderNext]_vars

\* ------------------------------------------- the handlers on any registry
\* The handlers guard against a registry and a notebook that do not agree: a
\* page that the notebook does not hold, a page number that no tab has, no
\* current page.  HandlerSpec starts them on every small registry and
\* notebook, agreeing or not.
AnyDescriptions == {ClickableAll, ClickableRack(1)}

AnyTabs ==
    {[update_tab(new_linky_buffer(d), <<>>) EXCEPT !.page_id = id, !.title = TitleOf(d)] :
        d \in AnyDescriptions, id \in 0..MaxAnyTabs}

AnyStores ==
    {<<>>, <<[id |-> 1, rack_no |-> 1, chassis_no |-> 1, valve_no |-> NoValve,
             message |-> Message, enabled |-> TRUE]>>}

HandlerInit ==
    /\ open_tabs_list \in SeqsUpTo(AnyTabs, MaxAnyTabs)
    /\ pages \in SeqsUpTo(AnyDescriptions, MaxAnyTabs)
    /\ current_page \in -1..(Len(pages) - 1)
    /\ bar = 0
    /\ window_closed = FALSE
    /\ db \in AnyStores
    /\ stdout = <<>>
    /\ queried = <<>>
    /\ refreshed = <<>>
    /\ scanned = <<>>
    /\ last = [op |-> "activate", arg |-> 0, before |-> <<>>, cur |-> -1]
    /\ show_disabled = TRUE
    /\ hide_disabled = TRUE
    /\ menu = 0

\* contents may be a widget that is no page of the notebook: a position
\* outside 1..Len(pages)
HandlerNext ==
    \/ \E contents \in 0..(MaxAnyTabs + 1) : CloseButton(contents)
    \/ \E n \in 0..(Len(pages) - 1) : SelectTab(n)
    \/ GuiUpdate

HandlerSpec == HandlerInit /\ [][HandlerNext]_vars

\* ------------------------------------------ the methods on a NULL self
\* The public methods of the notebook called with self = NULL, whatever the
\* notebook of the application holds.
Methods == {"update", "get_error_count", "show_page", "close_node"}

\* the process is ended, by abort or by a signal, with a message on stderr
ended(st, message) == [st EXCEPT !.closed = TRUE, !.out = Append(@, <<message>>)]

\* What a public method does with self = NULL.
\*   close_node       if (NULL == self) return;
\*   get_error_count  assert(NULL != self); built with NDEBUG it goes on to
\*                    gtk_notebook_get_current_page, which returns -1 for
\*                    what is no notebook: "bad current page", return -1
\*   update, show_page  read self->priv: undefined behaviour, a segmentation
\*                    fault (fault) or whatever else the build makes of it,
\*                    taken here as going on without effect
null_self(st, method, ndebug, fault) ==
    CASE method = "close_node" -> st
      [] method = "get_error_count" ->
             IF ~ndebug THEN ended(st, "Assertion `NULL != self' failed.")
             ELSE [st EXCEPT !.out = Append(@, <<"bad current page">>)]
      [] OTHER -> IF fault THEN ended(st, "Segmentation fault") ELSE st

\* a public method is called with self = NULL
CallOnNull(method) ==
    /\ ~window_closed
    /\ \E ndebug \in BOOLEAN, fault \in BOOLEAN :
           Becomes(null_self(Here, method, ndebug, fault))
    /\ last' = Ran("null_self", method)
    /\ UNCHANGED <<db, show_disabled, hide_disabled, menu>>

NullNext == \E method \in Methods : CallOnNull(method)

NullSpec == HandlerInit /\ [][NullNext]_vars

\* --------------------------------------------- the user at the window
\* The window with records in the store: the user presses and releases
\* buttons and moves the pointer over the links and descriptions of the
\* current page, picks "Toggle Disabled" from the menu of a description,
\* "Hide Disabled" from the View menu, "Toggle Disabled" and "Check
\* Connected" from the Nodes menu, closes and picks tabs; the timer updates
\* the gui.
NodeNotConnected == <<"N", "o", "d", "e", " ", "n", "o", "t", " ", "c", "o", "n", "n", "e", "c", "t", "e", "d">>

UiRecords ==
    [rack_no : {3}, chassis_no : {5}, valve_no : {NoValve, 12}, message : {Overheat},
     enabled : BOOLEAN]

UiInit ==
    /\ db \in {Numbered(records) : records \in SeqsUpTo(UiRecords, MaxUiRows)}
    /\ show_disabled \in BOOLEAN
    /\ hide_disabled = TRUE
    /\ menu = 0
    /\ LET st == update_bar(add_new_page_to_notebook(State(<<>>, <<>>, -1, -1, FALSE),
                                                     ClickableAll, <<>>), <<>>)
       IN  /\ open_tabs_list = st.list
           /\ pages = st.pages
           /\ current_page = st.cur
           /\ bar = st.bar
           /\ window_closed = st.closed
           /\ stdout = st.out
           /\ queried = st.queried
           /\ refreshed = st.refreshed
           /\ scanned = st.scanned
    /\ last = [op |-> "activate", arg |-> 0, before |-> <<>>, cur |-> -1]

\* the tags applied to the text of the current page
TagsShown ==
    LET result == find_by_id(open_tabs_list, current_page)
    IN  IF current_page = -1 \/ result = 0 THEN <<>> ELSE open_tabs_list[result].tags

\* an event on the text under the link tag at position tag of the current page
LinkClicked(tag, event) ==
    /\ ~window_closed
    /\ tag \in 1..Len(TagsShown)
    /\ TagsShown[tag].kind = "link"
    /\ \/ find_by_desc(open_tabs_list, [description |-> TagsShown[tag].data,
                                         page_id |-> -1]) # 0
       \/ Len(open_tabs_list) < MaxTabs
    /\ Becomes(link_clicked(Here, event, TagsShown[tag].data, shown(db, show_disabled)))
    /\ last' = Ran("link_clicked", [event |-> event, data |-> TagsShown[tag].data])
    /\ UNCHANGED <<db, show_disabled, hide_disabled, menu>>

\* an event on the text under the description tag at position tag
DescClicked(tag, event) ==
    /\ ~window_closed
    /\ tag \in 1..Len(TagsShown)
    /\ TagsShown[tag].kind = "description"
    /\ menu' = desc_clicked(menu, event, TagsShown[tag].data)
    /\ Becomes(Here)
    /\ last' = Ran("desc_clicked", [event |-> event, error_id |-> TagsShown[tag].data])
    /\ UNCHANGED <<db, show_disabled, hide_disabled>>

\* the menu's item "Toggle Disabled" is activated
MenuActivate ==
    /\ ~window_closed
    /\ menu # 0
    /\ LET done == disable_click(Here, db, show_disabled, menu)
       IN  /\ Becomes(done.gui)
           /\ db' = done.db
    /\ menu' = 0
    /\ last' = Ran("disable_click", menu)
    /\ UNCHANGED <<show_disabled, hide_disabled>>

\* "Hide Disabled" of the View menu is picked
HideDisabled ==
    /\ ~window_closed
    /\ LET done == hide_disabled_change_state(Here, db, show_disabled, hide_disabled)
       IN  /\ Becomes(done.gui)
           /\ show_disabled' = done.show
           /\ hide_disabled' = done.hide
    /\ last' = Ran("hide_disabled", hide_disabled)
    /\ UNCHANGED <<db, menu>>

\* "Toggle Disabled" of a node in the Nodes menu: node_toggle_disabled, which
\* may disable or enable any errors of the node, then gui_update
NodeToggleDisabled(rack_no, chassis_no) ==
    /\ ~window_closed
    /\ \E toggled \in SUBSET {k \in 1..Len(db) : /\ db[k].rack_no = rack_no
                                                  /\ db[k].chassis_no = chassis_no} :
           /\ db' = [k \in 1..Len(db) |->
                        IF k \in toggled THEN [db[k] EXCEPT !.enabled = ~@] ELSE db[k]]
           /\ Becomes(gui_update(Here, shown(db', show_disabled)))
    /\ last' = Ran("node_toggle_disabled", <<rack_no, chassis_no>>)
    /\ UNCHANGED <<show_disabled, hide_disabled, menu>>

\* "Check Connected": an error is added for a node that is not connected,
\* then gui_update
CheckConnected(rack_no, chassis_no) ==
    /\ ~window_closed
    /\ Len(db) < MaxUiRows
    /\ db' = Append(db, [id |-> Len(db) + 1, rack_no |-> rack_no, chassis_no |-> chassis_no,
                         valve_no |-> NoValve, message |-> NodeNotConnected,
                         enabled |-> TRUE])
    /\ Becomes(gui_update(Here, shown(db', show_disabled)))
    /\ last' = Ran("check_connected", <<rack_no, chassis_no>>)
    /\ UNCHANGED <<show_disabled, hide_disabled, menu>>

\* "Show" of a node in the Nodes menu
NodeShow(rack_no, chassis_no) ==
    /\ ~window_closed
    /\ \/ find_by_desc(open_tabs_list, [description |-> ClickableChassis(rack_no, chassis_no),
                                         page_id |-> -1]) # 0
       \/ Len(open_tabs_list) < MaxTabs
    /\ Becomes(node_show_activate(Here, rack_no, chassis_no, shown(db, show_disabled)))
    /\ last' = Ran("node_show", <<rack_no, chassis_no>>)
    /\ UNCHANGED <<db, show_disabled, hide_disabled, menu>>

\* "Delete" of a node in the Nodes menu: remove_node, which may or may not
\* take the node's errors out of the store, then close_node and gui_update
NodeDelete(rack_no, chassis_no) ==
    /\ ~window_closed
    /\ db' \in {db, SelectSeq(db, LAMBDA e : ~(e.rack_no = rack_no /\ e.chassis_no = chassis_no))}
    /\ \E hit \in SUBSET {d \in Range(DescriptionsOf(open_tabs_list)) :
                               d.rack_num = Undef \/ d.chassis_num = Undef} :
           Becomes(node_delete_activate(Here, rack_no, chassis_no, hit,
                                        shown(db', show_disabled)))
    /\ last' = Ran("node_delete", <<rack_no, chassis_no>>)
    /\ UNCHANGED <<show_disabled, hide_disabled, menu>>

UiNext ==
    \/ \E tag \in 1..Len(TagsShown), event \in Events : LinkClicked(tag, event)
    \/ \E tag \in 1..Len(TagsShown), event \in Events : DescClicked(tag, event)
    \/ MenuActivate
    \/ HideDisabled
    \/ NodeToggleDisabled(3, 5)
    \/ CheckConnected(3, 5)
    \/ NodeDelete(3, 5)
    \/ NodeShow(3, 5)
    \/ GuiUpdate
    \/ \E contents \in 1..Len(pages) : CloseButton(contents)
    \/ \E n \in 0..(Len(pages) - 1) : SelectTab(n)

UiSpec == UiInit /\ [][UiNext]_vars

\* ================================================================ claims
\* A step with last'.op = "show_page" is a ShowPage(last'.arg) step, one with
\* "close_button" a CloseButton step on page number last'.arg, one with
\* "close_node" a CloseNode(last'.arg[1], last'.arg[2]) step.

\* Is a tab open whose description equals d under clickable_compare?
IsOpen(d) == find_by_desc(open_tabs_list, [description |-> d, page_id |-> -1]) # 0

WasOpen(d) == \E i \in 1..Len(last.before) : clickable_compare(last.before[i], d)

PageIds(list) == {list[i].page_id : i \in 1..Len(list)}

\* C1: no two open tabs have descriptions that are equal under
\* clickable_compare, whatever show_page, close, close_node and update did
\* before; so repeated show_page(d) calls open at most one tab for d.
C1_NoTwoTabsEqual ==
    \A i, j \in 1..Len(open_tabs_list) :
        i # j => ~clickable_compare(open_tabs_list[i].description,
                                    open_tabs_list[j].description)

\* show_page(d) has just run with a tab for d open already, among others
C1_Witness ==
    /\ last.op = "show_page"
    /\ WasOpen(last.arg)
    /\ Len(open_tabs_list) >= 2
    /\ Len(open_tabs_list) = Len(last.before)

\* C2: the page_id values in the open-tabs list are exactly 0 .. n-1 for n
\* open tabs, without gaps and without duplicates.
C2_Contiguity ==
    /\ PageIds(open_tabs_list) = 0..(Len(open_tabs_list) - 1)
    /\ Cardinality(PageIds(open_tabs_list)) = Len(open_tabs_list)

\* the first of three tabs has just been closed: two tabs were renumbered
C2_Witness ==
    /\ last.op = "close_button"
    /\ last.arg = 0
    /\ Len(last.before) = 3
    /\ Len(open_tabs_list) = 2

\* The step closes exactly the tab at list position p.
ClosesOnly(p) ==
    /\ Len(open_tabs_list') = Len(open_tabs_list) - 1
    /\ \A j \in 1..Len(open_tabs_list') :
           open_tabs_list'[j].description # open_tabs_list[p].description

\* C3: closing the tab at slot k lowers by exactly 1 the page_id of every
\* remaining tab whose page_id was above k and leaves the page_id of every
\* tab below k as it was.
C3_ReindexOnClose ==
    [][\A p \in 1..Len(open_tabs_list) :
          ClosesOnly(p) =>
              \A i \in (1..Len(open_tabs_list)) \ {p} :
                  \E j \in 1..Len(open_tabs_list') :
                      /\ open_tabs_list'[j].description = open_tabs_list[i].description
                      /\ open_tabs_list'[j].page_id =
                             IF open_tabs_list[i].page_id > open_tabs_list[p].page_id
                             THEN open_tabs_list[i].page_id - 1
                             ELSE open_tabs_list[i].page_id]_vars

\* the middle one of three tabs has just been closed
C3_Witness ==
    /\ last.op = "close_button"
    /\ last.arg = 1
    /\ Len(last.before) = 3
    /\ Len(open_tabs_list) = 2

\* The notebook shows, at every tab's page_id, that tab's page, and has as
\* many pages as there are tabs.
Mirror(list, pgs) ==
    /\ Len(pgs) = Len(list)
    /\ \A i \in 1..Len(list) :
           /\ list[i].page_id \in 0..(Len(pgs) - 1)
           /\ pgs[list[i].page_id + 1] = PageOf(list[i])

\* C4: page_ids mirror the tab order in every state, and also when the
\* notebook emits switch-page while a page is being removed: closing the
\* current page with the close button, another page remaining, leaves on
\* the status bar the count of the tab whose page is now the current one.
C4_SlotsMirrorTabs ==
    /\ []Mirror(open_tabs_list, pages)
    /\ [][(last'.op = "close_button" /\ last'.arg = current_page /\ Len(pages) > 1)
              => /\ current_page' \in 0..(Len(pages') - 1)
                 /\ bar' = count_clickable(db', pages'[current_page' + 1])]_vars

\* the current page, the first one, has just been closed; the tab that took
\* its place counts differently from the one closed
C4_Witness ==
    /\ last.op = "close_button"
    /\ last.arg = 0
    /\ last.cur = 0
    /\ Len(last.before) >= 2
    /\ count_clickable(db, last.before[1]) # count_clickable(db, last.before[2])

\* C5: after close_node(rack, chassis) no tab with description
\* CHASSIS(rack, chassis) is open.
C5_CloseNodeClosesChassis ==
    [][last'.op = "close_node"
          => \A j \in 1..Len(open_tabs_list') :
                 ~clickable_compare(open_tabs_list'[j].description,
                                    ClickableChassis(last'.arg[1], last'.arg[2]))]_vars

\* close_node has just run with the chassis tab open behind a valve tab of
\* the same node
C5_Witness ==
    /\ last.op = "close_node"
    /\ Len(last.before) = 3
    /\ last.before[2].type = "VALVE"
    /\ last.before[3] = ClickableChassis(last.arg[1], last.arg[2])
    /\ last.before[2].rack_num = last.arg[1]
    /\ last.before[2].chassis_num = last.arg[2]

\* C6: close_node(rack, chassis) leaves open every tab whose description is
\* not CHASSIS(rack, chassis): ALL, RACK and VALVE tabs are not closed.
C6_CloseNodeLeavesOthers ==
    [][last'.op = "close_node"
          => \A i \in 1..Len(open_tabs_list) :
                 ~clickable_compare(open_tabs_list[i].description,
                                    ClickableChassis(last'.arg[1], last'.arg[2]))
                     => \E j \in 1..Len(open_tabs_list') :
                            open_tabs_list'[j].description
                                = open_tabs_list[i].description]_vars

\* C7: a step that closes a tab requests the close of the top-level window
\* exactly when it leaves no tab open.
C7_TeardownIffEmpty ==
    [][Len(open_tabs_list') < Len(open_tabs_list)
          => (window_closed' <=> Len(open_tabs_list') = 0)]_vars

\* the only tab open has just been closed and the window close requested
C7_Witness ==
    /\ last.op = "close_button"
    /\ Len(last.before) = 1
    /\ window_closed
    /\ open_tabs_list = <<>>

\* C8: show_page(d) with no tab for d open adds exactly one tab, with
\* description d and page_id the number of tabs before; the others stay.
C8_ShowPageNew ==
    [][(last'.op = "show_page" /\ ~IsOpen(last'.arg))
          => /\ Len(open_tabs_list') = Len(open_tabs_list) + 1
             /\ SubSeq(open_tabs_list', 1, Len(open_tabs_list)) = open_tabs_list
             /\ open_tabs_list'[Len(open_tabs_list')].description = last'.arg
             /\ open_tabs_list'[Len(open_tabs_list')].page_id = Len(open_tabs_list)]_vars

\* show_page has just opened a third tab
C8_Witness ==
    /\ last.op = "show_page"
    /\ ~WasOpen(last.arg)
    /\ Len(last.before) = 2
    /\ Len(open_tabs_list) = 3

\* C9: show_page(d) with a tab for d open changes no tab (page_id,
\* description, title, rendered text), nor their number, nor the notebook's
\* pages; only the current page may change.
C9_ShowPageFound ==
    [][(last'.op = "show_page" /\ IsOpen(last'.arg))
          => /\ open_tabs_list' = open_tabs_list
             /\ pages' = pages
             /\ window_closed' = window_closed
             /\ db' = db]_vars

\* show_page has just moved the focus to an open tab whose text is out of
\* date with the store
C9_Witness ==
    /\ last.op = "show_page"
    /\ WasOpen(last.arg)
    /\ last.cur # current_page
    /\ \E i \in 1..Len(open_tabs_list) :
           /\ clickable_compare(open_tabs_list[i].description, last.arg)
           /\ open_tabs_list[i] # update_tab(open_tabs_list[i], db)

\* C10: after show_page(d) the current page is the page_id, as renumbered by
\* the closes before, of the tab whose description equals d, and the
\* notebook shows that tab's page there.
C10_ShowPageFocuses ==
    [][last'.op = "show_page"
          => \E j \in 1..Len(open_tabs_list') :
                 /\ clickable_compare(open_tabs_list'[j].description, last'.arg)
                 /\ current_page' = open_tabs_list'[j].page_id
                 /\ pages'[current_page' + 1] = PageOf(open_tabs_list'[j])]_vars

\* The Chassis (1,2) tab, opened behind All, is the first of two tabs now
\* that All was closed, and show_page(Chassis (1,2)) has just moved the
\* focus from page 1 to its page 0.
C10_Witness ==
    /\ last.op = "show_page"
    /\ last.arg = ClickableChassis(1, 2)
    /\ DescriptionsOf(open_tabs_list) = <<ClickableChassis(1, 2), ClickableRack(1)>>
    /\ last.before = DescriptionsOf(open_tabs_list)
    /\ last.cur = 1
    /\ current_page = 0
    /\ open_tabs_list[1].page_id = 0

\* ------------------------------------------------------- C11 .. C20
\* Does no tab of the list have page_id k?
NoTabWithId(list, k) == \A i \in 1..Len(list) : list[i].page_id # k

C12_CountIsOfStoreNow ==
    /\ [](\A i \in 1..Len(open_tabs_list) :
             open_tabs_list[i].page_id = current_page
                 => edsac_error_notebook_get_error_count(Here, db)
                        = count_clickable(db, open_tabs_list[i].description))
    /\ [][(last'.op = "select_tab" /\ current_page' # current_page)
              => \A i \in 1..Len(open_tabs_list') :
                     open_tabs_list'[i].page_id = current_page'
                         => bar' = count_clickable(db', open_tabs_list'[i].description)]_vars

\* the user has picked a tab that rendered no row, the store holds a record
\* under its description, and the status bar counts that record
C12_Witness ==
    /\ last.op = "select_tab"
    /\ \E i \in 1..Len(open_tabs_list) :
           /\ open_tabs_list[i].page_id = current_page
           /\ open_tabs_list[i].g_string_list = <<>>
           /\ count_clickable(db, open_tabs_list[i].description) = 1
    /\ bar = 1

\* The tabs' descriptions and page_ids, in list order.
KeysOf(list) == [i \in 1..Len(list) |-> <<list[i].description, list[i].page_id>>]

FailureToCount == <<"Failure to count errors (something is probably very wrong)">>

\* C13: with no current page, or with a current page whose number no tab
\* has, edsac_error_notebook_get_error_count is -1.  A switch to a page
\* without a tab leaves the list as it was and the status bar on the
\* failure-to-count message; so does gui_update without a current page,
\* which changes no tab's description or page_id.
C13_NoCountWithoutTab ==
    /\ []((current_page = -1 \/ NoTabWithId(open_tabs_list, current_page))
             => edsac_error_notebook_get_error_count(Here, db) = -1)
    /\ [][(/\ last'.op = "select_tab"
            /\ current_page' # current_page
            /\ NoTabWithId(open_tabs_list, current_page'))
              => /\ open_tabs_list' = open_tabs_list
                 /\ pages' = pages
                 /\ bar' = -1
                 /\ StatusMessage(bar') = FailureToCount
                 /\ stdout' = << <<"current page not found">> >>]_vars
    /\ [][(/\ last'.op = "gui_update"
            /\ (current_page = -1 \/ NoTabWithId(open_tabs_list, current_page)))
              => /\ KeysOf(open_tabs_list') = KeysOf(open_tabs_list)
                 /\ pages' = pages
                 /\ current_page' = current_page
                 /\ bar' = -1
                 /\ StatusMessage(bar') = FailureToCount
                 /\ stdout' # <<>>]_vars

\* gui_update has just run without a current page, two tabs in the list:
\* the status bar is on the failure-to-count message
C13_Witness ==
    /\ last.op = "gui_update"
    /\ current_page = -1
    /\ Len(open_tabs_list) = 2
    /\ bar = -1
    /\ stdout = << <<"bad current page">> >>

\* C14: gui_update, through edsac_error_notebook_update, updates every open
\* tab once, from the tab of page 0 upwards: the queries it makes are those
\* of the tabs in list order, which is page order, and every tab is left as
\* update_tab leaves it for the store as it is.  The number of tabs, their
\* page_ids and descriptions, the notebook's pages and the current page stay
\* as they were.
C14_UpdateFrame ==
    [][last'.op = "gui_update"
          => /\ queried' = DescriptionsOf(open_tabs_list)
             /\ \A i \in 1..Len(open_tabs_list) : open_tabs_list[i].page_id = i - 1
             /\ Len(open_tabs_list') = Len(open_tabs_list)
             /\ \A i \in 1..Len(open_tabs_list) :
                    open_tabs_list'[i] = update_tab(open_tabs_list[i], db)
             /\ KeysOf(open_tabs_list') = KeysOf(open_tabs_list)
             /\ pages' = pages
             /\ current_page' = current_page
             /\ window_closed' = window_closed]_vars

\* gui_update has just run on three tabs, the second one current, and the
\* text of one of them shows a record of the store
C14_Witness ==
    /\ last.op = "gui_update"
    /\ Len(open_tabs_list) = 3
    /\ Len(queried) = 3
    /\ current_page = 1
    /\ \E i \in 1..3 : open_tabs_list[i].buffer # <<>>
    /\ \E i \in 1..3 : open_tabs_list[i].buffer = <<>>

\* The tags of a tab by kind: the links (to a rack, a chassis, a valve) and
\* the descriptions.
TagsOfKind(linky_buffer, kind) ==
    {k \in 1..Len(linky_buffer.tags) : linky_buffer.tags[k].kind = kind}

\* C15: once gui_update has run, running edsac_error_notebook_update again
\* on the same store leaves every tab with the same text, character for
\* character, and with as many link ranges and as many description ranges.
C15_UpdateTwice ==
    last.op = "gui_update"
        => LET again == edsac_error_notebook_update(Here, db).list
           IN  /\ Len(again) = Len(open_tabs_list)
               /\ \A i \in 1..Len(open_tabs_list) :
                      /\ again[i].buffer = open_tabs_list[i].buffer
                      /\ Cardinality(TagsOfKind(again[i], "link"))
                             = Cardinality(TagsOfKind(open_tabs_list[i], "link"))
                      /\ Cardinality(TagsOfKind(again[i], "description"))
                             = Cardinality(TagsOfKind(open_tabs_list[i], "description"))

\* gui_update has just run and left a tab with a row that names a valve:
\* three link ranges and one description range
C15_Witness ==
    /\ last.op = "gui_update"
    /\ \E i \in 1..Len(open_tabs_list) :
           /\ open_tabs_list[i].buffer # <<>>
           /\ Cardinality(TagsOfKind(open_tabs_list[i], "link")) = 3
           /\ Cardinality(TagsOfKind(open_tabs_list[i], "description")) = 1

\* Equality of two descriptions of the types ALL, RACK and CHASSIS, stated
\* field by field.
SameFilter(a, b) ==
    /\ a.type = b.type
    /\ a.type = "RACK" => a.rack_num = b.rack_num
    /\ a.type = "CHASSIS" => (a.rack_num = b.rack_num /\ a.chassis_num = b.chassis_num)

\* C16: clickable_compare is true of two ALL Clickables whatever their
\* rack, chassis and valve fields hold, of two RACK Clickables exactly when
\* their racks are the same, of two CHASSIS Clickables exactly when rack
\* and chassis are the same, and false of two Clickables of different
\* types; show_page, which compares with it, adds a tab exactly when it is
\* false.
C16_ClickableCompare ==
    [][last'.op = "show_page"
          => LET a == open_tabs_list[1].description
                 b == last'.arg
             IN  (a.type # b.type \/ a.type \in {"ALL", "RACK", "CHASSIS"})
                     => /\ clickable_compare(a, b) <=> SameFilter(a, b)
                        /\ clickable_compare(b, a) <=> SameFilter(a, b)
                        /\ SameFilter(a, b) <=> open_tabs_list' = open_tabs_list]_vars

\* show_page has just run for an ALL Clickable while the tab of another ALL
\* Clickable, different in rack, chassis and valve, was the only one open:
\* no tab was added
C16_Witness ==
    /\ last.op = "show_page"
    /\ last.arg.type = "ALL"
    /\ Len(open_tabs_list) = 1
    /\ open_tabs_list[1].description.type = "ALL"
    /\ open_tabs_list[1].description.rack_num # last.arg.rack_num
    /\ open_tabs_list[1].description.chassis_num # last.arg.chassis_num
    /\ open_tabs_list[1].description.valve_num # last.arg.valve_num

\* C17: two VALVE Clickables are equal under clickable_compare exactly when
\* their racks and their chassis are the same, whatever their valves; so
\* show_page for a valve, while the tab of a valve of the same rack and
\* chassis is open, adds no tab and makes that tab's page the current one.
C17_ValveIgnored ==
    [][(last'.op = "show_page" /\ last'.arg.type = "VALVE")
          => \A i \in 1..Len(open_tabs_list) :
                 LET a == open_tabs_list[i].description
                 IN  a.type = "VALVE"
                         => /\ clickable_compare(a, last'.arg)
                                <=> (a.rack_num = last'.arg.rack_num
                                     /\ a.chassis_num = last'.arg.chassis_num)
                            /\ (a.rack_num = last'.arg.rack_num
                                /\ a.chassis_num = last'.arg.chassis_num)
                                   => /\ open_tabs_list' = open_tabs_list
                                      /\ pages' = pages
                                      /\ current_page' = open_tabs_list[i].page_id]_vars

\* show_page for valve 2 of chassis (1,1) has just run with the tab of
\* valve 1 of that chassis open behind another tab: no tab was added, no
\* tab is described by valve 2, and the focus has moved to the valve 1 tab
C17_Witness ==
    /\ last.op = "show_page"
    /\ last.arg = ClickableValve(1, 1, 2)
    /\ Len(open_tabs_list) = 2
    /\ Len(last.before) = 2
    /\ open_tabs_list[2].description = ClickableValve(1, 1, 1)
    /\ last.cur = 0
    /\ current_page = 1

\* The titles as claimed: "All", "Rack R", "Rack R, Chassis C",
\* "Rack R, Chassis C, Valve V", "(Unknown)".
TitleAsClaimed(d) ==
    CASE d.type = "ALL" -> <<"All">>
      [] d.type = "RACK" -> <<"Rack ", d.rack_num>>
      [] d.type = "CHASSIS" -> <<"Rack ", d.rack_num, ", Chassis ", d.chassis_num>>
      [] d.type = "VALVE" -> <<"Rack ", d.rack_num, ", Chassis ", d.chassis_num,
                               ", Valve ", d.valve_num>>
      [] OTHER -> <<"(Unknown)">>

\* C18: the title of every tab is the title claimed for its description:
\* "All", "Rack R", "Rack R, Chassis C" or "Rack R, Chassis C, Valve V".
C18_TitlesAsClaimed ==
    \A i \in 1..Len(open_tabs_list) :
        open_tabs_list[i].title = TitleAsClaimed(open_tabs_list[i].description)

\* The line claimed for a record: "Rack: {rack}, Chassis: {chassis}, ", then
\* "Valve: {valve}: " if the record names a valve, then the message and a
\* newline.
LineAsClaimed(e) ==
    <<"R", "a", "c", "k", ":", " ">> \o FormatInt(e.rack_no)
    \o <<",", " ", "C", "h", "a", "s", "s", "i", "s", ":", " ">>
    \o FormatInt(e.chassis_no) \o <<",", " ">>
    \o (IF e.valve_no >= 0
        THEN <<"V", "a", "l", "v", "e", ":", " ">> \o FormatInt(e.valve_no) \o <<":", " ">>
        ELSE <<>>)
    \o e.message \o <<"\n">>

RECURSIVE LinesAsClaimed(_)
LinesAsClaimed(results) ==
    IF results = <<>> THEN <<>>
    ELSE LineAsClaimed(Head(results)) \o LinesAsClaimed(Tail(results))

\* "Rack: 3, Chassis: 5, Overheat\n"
Rack3Chassis5Overheat ==
    <<"R", "a", "c", "k", ":", " ", "3", ",", " ", "C", "h", "a", "s", "s", "i", "s", ":", " ", "5", ",", " ", "O", "v", "e", "r", "h", "e", "a", "t", "\n">>

\* C19: after gui_update the text of every tab is, line after line in the
\* order of the query's results, the line claimed for each record; no
\* result gives the empty text, and nothing is printed.  The one record
\* {rack 3, chassis 5, no valve, "Overheat"} gives
\* "Rack: 3, Chassis: 5, Overheat\n".
C19_TextOfResults ==
    last.op = "gui_update"
        => /\ \A i \in 1..Len(open_tabs_list) :
                  LET results == search_clickable(db, open_tabs_list[i].description)
                  IN  /\ open_tabs_list[i].buffer = LinesAsClaimed(results)
                      /\ results = <<>> => open_tabs_list[i].buffer = <<>>
                      /\ (/\ Len(results) = 1
                          /\ results[1].rack_no = 3 /\ results[1].chassis_no = 5
                          /\ results[1].valve_no = -1 /\ results[1].message = Overheat)
                             => open_tabs_list[i].buffer = Rack3Chassis5Overheat
           /\ stdout = <<>>

\* gui_update has just rendered a store of two records, the first
\* {rack 3, chassis 5, no valve, "Overheat"}, the second one naming valve 0,
\* on the tab of rack 3, whose text is the first record's line alone
C19_Witness ==
    /\ last.op = "gui_update"
    /\ Len(db) = 2
    /\ db[1].rack_no = 3 /\ db[1].valve_no = -1 /\ db[1].message = Overheat
    /\ db[2].rack_no = 10 /\ db[2].valve_no = 0
    /\ open_tabs_list[1].description = ClickableRack(3)
    /\ open_tabs_list[1].buffer = Rack3Chassis5Overheat

\* The characters of the buffer that a tag is applied to: those at the
\* offsets start up to, not including, end.
TextUnder(linky_buffer, tag) == SubSeq(linky_buffer.buffer, tag.start + 1, tag.end)

\* the link tags of a tab, in the order applied
LinksOf(linky_buffer) == SelectSeq(linky_buffer.tags, LAMBDA tag : tag.kind = "link")

RackText(e) == <<"R", "a", "c", "k", ":", " ">> \o FormatInt(e.rack_no)

ChassisText(e) == <<"C", "h", "a", "s", "s", "i", "s", ":", " ">> \o FormatInt(e.chassis_no)

ValveText(e) == <<"V", "a", "l", "v", "e", ":", " ">> \o FormatInt(e.valve_no)

\* The links claimed for the records rendered from offset on: where each
\* starts and ends and the Clickable it is bound to.
RECURSIVE LinksAsClaimed(_, _)
LinksAsClaimed(results, offset) ==
    IF results = <<>> THEN <<>>
    ELSE LET e == Head(results)
             rack_start == offset
             chassis_start == rack_start + Len(RackText(e)) + 2
             valve_start == chassis_start + Len(ChassisText(e)) + 2
         IN  <<[start |-> rack_start, end |-> rack_start + Len(RackText(e)),
                text |-> RackText(e), type |-> "RACK",
                numbers |-> <<e.rack_no>>],
               [start |-> chassis_start, end |-> chassis_start + Len(ChassisText(e)),
                text |-> ChassisText(e), type |-> "CHASSIS",
                numbers |-> <<e.rack_no, e.chassis_no>>]>>
             \o (IF e.valve_no >= 0
                 THEN <<[start |-> valve_start, end |-> valve_start + Len(ValveText(e)),
                         text |-> ValveText(e), type |-> "VALVE",
                         numbers |-> <<e.rack_no, e.chassis_no, e.valve_no>>]>>
                 ELSE <<>>)
             \o LinksAsClaimed(Tail(results), offset + Len(LineAsClaimed(e)))

\* the numbers a Clickable of a type is made of
NumbersOf(data) ==
    CASE data.type = "RACK" -> <<data.rack_num>>
      [] data.type = "CHASSIS" -> <<data.rack_num, data.chassis_num>>
      [] data.type = "VALVE" -> <<data.rack_num, data.chassis_num, data.valve_num>>
      [] OTHER -> <<>>

\* C20: after gui_update the links of every tab are, record after record,
\* a rack link over exactly "Rack: {rack}" bound to RACK(rack), a chassis
\* link over exactly "Chassis: {chassis}" bound to CHASSIS(rack, chassis)
\* and, exactly when the record names a valve (valve >= 0), a valve link
\* over exactly "Valve: {valve}" bound to VALVE(rack, chassis, valve); the
\* character after each link is the separator, outside the link.
C20_LinkRanges ==
    last.op = "gui_update"
        => \A i \in 1..Len(open_tabs_list) :
               LET linky_buffer == open_tabs_list[i]
                   links == LinksOf(linky_buffer)
                   claimed == LinksAsClaimed(search_clickable(db, linky_buffer.description), 0)
               IN  /\ Len(links) = Len(claimed)
                   /\ \A k \in 1..Len(claimed) :
                          /\ links[k].start = claimed[k].start
                          /\ links[k].end = claimed[k].end
                          /\ TextUnder(linky_buffer, links[k]) = claimed[k].text
                          /\ links[k].data.type = claimed[k].type
                          /\ NumbersOf(links[k].data) = claimed[k].numbers
                          /\ linky_buffer.buffer[links[k].end + 1] \in {",", ":"}

\* gui_update has just rendered two records on the All tab, the second one
\* {rack 10, chassis 5, valve 12}: five links, the last one over "Valve: 12"
C20_Witness ==
    /\ last.op = "gui_update"
    /\ open_tabs_list[1].description = ClickableAll
    /\ Len(db) = 2
    /\ db[1].valve_no = NoValve
    /\ db[2].rack_no = 10 /\ db[2].valve_no = 12
    /\ Len(LinksOf(open_tabs_list[1])) = 5
    /\ TextUnder(open_tabs_list[1], LinksOf(open_tabs_list[1])[5])
           = <<"V", "a", "l", "v", "e", ":", " ", "1", "2">>

\* ------------------------------------------------------- C21 .. C30
\* the description tags of a tab, in the order applied
DescriptionsTagged(linky_buffer) ==
    SelectSeq(linky_buffer.tags, LAMBDA tag : tag.kind = "description")

\* The description ranges claimed for the records rendered from offset on:
\* from the end of "Valve: {valve}", or of "Chassis: {chassis}" for a record
\* without a valve, to the end of the record's line.
RECURSIVE DescriptionsAsClaimed(_, _)
DescriptionsAsClaimed(results, offset) ==
    IF results = <<>> THEN <<>>
    ELSE LET e == Head(results)
             chassis_end == offset + Len(RackText(e)) + 2 + Len(ChassisText(e))
             prefix_end == IF e.valve_no >= 0 THEN chassis_end + 2 + Len(ValveText(e))
                           ELSE chassis_end
             line_end == offset + Len(LineAsClaimed(e))
         IN  <<[start |-> prefix_end, end |-> line_end, id |-> e.id,
                text |-> (IF e.valve_no >= 0 THEN <<":", " ">> ELSE <<",", " ">>)
                         \o e.message \o <<"\n">>]>>
             \o DescriptionsAsClaimed(Tail(results), line_end)

AllTabs(list) == {i \in 1..Len(list) : list[i].description.type = "ALL"}

\* C22: the notebook as constructed has exactly one open tab, described as
\* ALL, on notebook page 0, which is the current page; and the close button
\* closes a tab described as ALL like any other tab: after it is pressed on
\* the page of such a tab, that tab is gone and every other tab remains.
C22_AllTabAtStartClosable ==
    /\ [](last.op = "activate"
            => /\ Len(open_tabs_list) = 1
               /\ open_tabs_list[1].description = ClickableAll
               /\ open_tabs_list[1].page_id = 0
               /\ pages = <<PageOf(open_tabs_list[1])>>
               /\ current_page = 0
               /\ ~window_closed)
    /\ [][last'.op = "close_button"
            => \A i \in AllTabs(open_tabs_list) :
                   open_tabs_list[i].page_id = last'.arg
                       => /\ AllTabs(open_tabs_list') = AllTabs(open_tabs_list) \ {i}
                          /\ DescriptionsOf(open_tabs_list')
                                 = g_slist_delete_link(DescriptionsOf(open_tabs_list), i)
                          /\ pages' = g_slist_delete_link(pages, last'.arg + 1)]_vars

\* the close button of page 0 was pressed on the notebook as constructed:
\* no tab is left and the window is closed
C22_Witness ==
    /\ last.op = "close_button"
    /\ last.arg = 0
    /\ last.before = <<ClickableAll>>
    /\ open_tabs_list = <<>>
    /\ pages = <<>>
    /\ window_closed

\* C23: a refresh releases everything the refresh before it acquired: when
\* gui_update finds a tab holding what the store's records make of it, so
\* that the query results are those of the refresh before, each update_tab
\* frees as much of every kind (text, strings, Clickables, tags) as it
\* allocates, and the number of live resources stays what it was.
C23_RefreshReleasesAll ==
    last.op = "gui_update"
        => \A k \in 1..Len(refreshed) :
               refreshed[k].linky_buffer = open_tabs_list[k]
                   => refreshed[k].freed = refreshed[k].allocated

\* the ranges [start, end) of two tags have a character in common
Overlap(a, b) == a.start < b.end /\ b.start < a.end

\* the offsets at which the lines of the records start, and the end of the last
RECURSIVE LineStarts(_, _)
LineStarts(results, offset) ==
    IF results = <<>> THEN <<offset>>
    ELSE <<offset>> \o LineStarts(Tail(results), offset + Len(LineAsClaimed(Head(results))))

\* the tags gui_update applied for the k-th record of results
TagsOfRecord(linky_buffer, results, k) ==
    LET starts == LineStarts(results, 0)
    IN  {t \in 1..Len(linky_buffer.tags) :
            /\ starts[k] <= linky_buffer.tags[t].start
            /\ linky_buffer.tags[t].end <= starts[k + 1]}

\* C24: after gui_update no two ranges of a tab overlap, be they of one record
\* or of two; every range is not empty and lies within the line of one
\* record, and every record has its description range and its rack and
\* chassis ranges, and a valve range if it names a valve, within its line.
C24_RangesDisjoint ==
    last.op = "gui_update"
        => \A i \in 1..Len(open_tabs_list) :
               LET linky_buffer == open_tabs_list[i]
                   tags == linky_buffer.tags
                   results == search_clickable(db, linky_buffer.description)
               IN  /\ \A a, b \in 1..Len(tags) : a # b => ~Overlap(tags[a], tags[b])
                   /\ \A a \in 1..Len(tags) :
                          /\ tags[a].start < tags[a].end
                          /\ \E k \in 1..Len(results) :
                                 a \in TagsOfRecord(linky_buffer, results, k)
                   /\ \A k \in 1..Len(results) :
                          Cardinality(TagsOfRecord(linky_buffer, results, k))
                              = IF results[k].valve_no >= 0 THEN 4 ELSE 3

\* gui_update has just rendered two records on the All tab, the first one
\* naming a valve: seven ranges, the description range of the first record
\* ending where the rack range of the second one starts
C24_Witness ==
    /\ last.op = "gui_update"
    /\ open_tabs_list[1].description = ClickableAll
    /\ Len(db) = 2
    /\ db[1].valve_no = 12
    /\ db[2].valve_no = NoValve
    /\ Len(open_tabs_list[1].tags) = 7
    /\ \E a, b \in 1..7 :
           /\ open_tabs_list[1].tags[a].kind = "description"
           /\ open_tabs_list[1].tags[b].kind = "link"
           /\ open_tabs_list[1].tags[b].data = ClickableRack(db[2].rack_no)
           /\ open_tabs_list[1].tags[a].end = open_tabs_list[1].tags[b].start

\* the tabs of the list, their page ids aside
WithoutPageIds(list) == [i \in 1..Len(list) |-> [list[i] EXCEPT !.page_id = 0]]

\* C25: pressing the close button of page k removes from open_tabs_list
\* exactly the tab whose page_id is k, and from the notebook exactly page k;
\* the other tabs keep their description, title, text, tags, strings and
\* Clickables, and their order in the list, and the other pages their order.
C25_CloseFrame ==
    [][last'.op = "close_button"
           => \E p \in 1..Len(open_tabs_list) :
                  /\ open_tabs_list[p].page_id = last'.arg
                  /\ WithoutPageIds(open_tabs_list')
                         = g_slist_delete_link(WithoutPageIds(open_tabs_list), p)
                  /\ pages' = g_slist_delete_link(pages, last'.arg + 1)
                  /\ pages[last'.arg + 1] = PageOf(open_tabs_list[p])]_vars

\* the close button of page 1 was pressed with three tabs open, each showing
\* a record: the tab that was second in the list is gone, the two others
\* remain with their text
C25_Witness ==
    /\ last.op = "close_button"
    /\ last.arg = 1
    /\ Len(last.before) = 3
    /\ DescriptionsOf(open_tabs_list) = <<last.before[1], last.before[3]>>
    /\ open_tabs_list[1].buffer # <<>>
    /\ open_tabs_list[2].buffer # <<>>
    /\ Len(pages) = 2

LeftPress == [type |-> "GDK_BUTTON_PRESS", button |-> 1]

\* C26: an event on a link of the current page whose tag is bound to
\* Clickable d: if it is a press of button 1 the notebook becomes what
\* show_page(d) makes of it, and then a tab described as d is open and its
\* page is the current page; any other event (another button, a release, a
\* motion) leaves the list, the pages and the current page as they were.
C26_LinkClicked ==
    [][last'.op = "link_clicked"
           => LET d == last'.arg.data
                  shown_page == edsac_error_notebook_show_page(Here, d,
                                                               shown(db, show_disabled))
              IN  /\ \E t \in 1..Len(TagsShown) :
                         TagsShown[t].kind = "link" /\ TagsShown[t].data = d
                  /\ IF last'.arg.event = LeftPress
                     THEN /\ open_tabs_list' = shown_page.list
                          /\ pages' = shown_page.pages
                          /\ current_page' = shown_page.cur
                          /\ \E i \in 1..Len(open_tabs_list') :
                                 /\ clickable_compare(open_tabs_list'[i].description, d)
                                 /\ open_tabs_list'[i].page_id = current_page'
                                 /\ pages'[current_page' + 1] = PageOf(open_tabs_list'[i])
                     ELSE UNCHANGED <<open_tabs_list, pages, current_page, bar, db>>]_vars

\* button 1 was pressed on the link "Chassis: 5" of the All page while no
\* tab of chassis 5 of rack 3 was open: the tab is open now, on the current
\* page, which is the last one
C26_Witness ==
    /\ last.op = "link_clicked"
    /\ last.arg.event = LeftPress
    /\ last.arg.data = ClickableChassis(3, 5)
    /\ ClickableChassis(3, 5) \notin Range(last.before)
    /\ last.before[last.cur + 1] = ClickableAll
    /\ IsOpen(ClickableChassis(3, 5))
    /\ current_page = Len(pages) - 1
    /\ pages[current_page + 1] = ClickableChassis(3, 5)

\* every tab holds what update_tab makes of it from the errors shown
AllUpdated(list, store) ==
    \A i \in 1..Len(list) : list[i] = update_tab(list[i], store)

\* C27: an event on a description of the current page changes neither the
\* store nor the tabs, pages, current page and status bar: a press of
\* button 1 pops up the menu bound to the error id of the description, any
\* other event does nothing.  Activating the menu's item toggles the error
\* of that id, once, and no other error; the gui is updated after that:
\* every tab then holds the errors shown of the store as toggled, and the
\* status bar their number under the current page's description.
C27_DescClickedThenToggle ==
    [][/\ last'.op = "desc_clicked"
           => /\ UNCHANGED <<open_tabs_list, pages, current_page, bar, db, show_disabled>>
              /\ \E t \in 1..Len(TagsShown) :
                     /\ TagsShown[t].kind = "description"
                     /\ TagsShown[t].data = last'.arg.error_id
              /\ \E k \in 1..Len(db) : db[k].id = last'.arg.error_id
              /\ menu' = IF last'.arg.event = LeftPress THEN last'.arg.error_id ELSE menu
       /\ last'.op = "disable_click"
           => /\ last'.arg = menu
              /\ Len(db') = Len(db)
              /\ \A k \in 1..Len(db) :
                     db'[k] = IF db[k].id = menu THEN [db[k] EXCEPT !.enabled = ~db[k].enabled]
                              ELSE db[k]
              /\ DescriptionsOf(open_tabs_list') = DescriptionsOf(open_tabs_list)
              /\ AllUpdated(open_tabs_list', shown(db', show_disabled))
              /\ bar' = edsac_error_notebook_get_error_count(
                            State(open_tabs_list', pages', current_page', bar', FALSE),
                            shown(db', show_disabled))
              /\ menu' = 0]_vars

\* with disabled errors not shown, "Toggle Disabled" was activated in the
\* menu of error 1, which was enabled and shown on the All page: the error is
\* disabled, the page is empty and the status bar counts no error
C27_Witness ==
    /\ last.op = "disable_click"
    /\ last.arg = 1
    /\ ~show_disabled
    /\ Len(db) = 1
    /\ ~db[1].enabled
    /\ Len(open_tabs_list) >= 2
    /\ \A i \in 1..Len(open_tabs_list) : open_tabs_list[i].buffer = <<>>
    /\ bar = 0
    /\ menu = 0

\* the handlers that end with gui_update: the timer's, disable_click,
\* hide_disabled_change_state and the handlers of the Nodes menu
GuiUpdaters ==
    {"gui_update", "disable_click", "hide_disabled", "node_toggle_disabled",
     "check_connected", "node_delete"}

\* C28: after every handler that ends with gui_update, with a tab on the
\* current page, every tab holds what update_tab makes of it from the errors
\* shown of the store as it is now, and the status bar holds the number of
\* the errors shown of that same store under the description of the tab on
\* the current page.
C28_BarCountsWhatTabsRender ==
    (last.op \in GuiUpdaters /\ find_by_id(open_tabs_list, current_page) # 0)
        => /\ AllUpdated(open_tabs_list, shown(db, show_disabled))
           /\ bar = count_clickable(shown(db, show_disabled),
                                    open_tabs_list[find_by_id(open_tabs_list,
                                                              current_page)].description)
           /\ bar = Len(open_tabs_list[find_by_id(open_tabs_list,
                                                  current_page)].g_string_list)

\* "Hide Disabled" was picked while the All page showed a disabled error:
\* disabled errors are not shown now, the page is empty and the status bar
\* counts no error
C28_Witness ==
    /\ last.op = "hide_disabled"
    /\ ~show_disabled
    /\ Len(db) = 1
    /\ ~db[1].enabled
    /\ last.before = <<ClickableAll>>
    /\ open_tabs_list[1].buffer = <<>>
    /\ current_page = 0
    /\ bar = 0
    /\ hide_disabled

\* C29: when show_page(d) opens a tab, no tab comparing equal to d being
\* open, the notebook changes to the new page with the tab already in the
\* list, its page_id the number of the new page (the number of pages there
\* were) and its text made from the store: the count that the change of page
\* sets off finds the tab, prints no failure and puts the number of the
\* store's errors under d on the status bar.
C29_NewTabReadyBeforeSwitch ==
    [][(last'.op = "show_page" /\ ~IsOpen(last'.arg))
           => LET d == last'.arg
                  result == find_by_id(open_tabs_list', current_page')
              IN  /\ Len(open_tabs_list') = Len(open_tabs_list) + 1
                  /\ current_page' = Len(pages)
                  /\ pages' = Append(pages, d)
                  /\ result # 0
                  /\ open_tabs_list'[result].description = d
                  /\ open_tabs_list'[result]
                         = update_tab([new_linky_buffer(d) EXCEPT !.title = TitleOf(d),
                                                                 !.page_id = Len(pages)],
                                      db)
                  /\ stdout' = <<>>
                  /\ bar' = count_clickable(db, d)]_vars

\* show_page has just opened the tab of rack 1 beside another tab, with an
\* error of rack 1 in the store: the tab is on the last page, which is the
\* current one, it shows the error, and the status bar counts 1
C29_Witness ==
    /\ last.op = "show_page"
    /\ last.arg = ClickableRack(1)
    /\ Len(last.before) >= 1
    /\ ClickableRack(1) \notin Range(last.before)
    /\ Len(db) = 1
    /\ db[1].rack_no = 1
    /\ current_page = Len(pages) - 1
    /\ pages[current_page + 1] = ClickableRack(1)
    /\ \E i \in 1..Len(open_tabs_list) :
           /\ open_tabs_list[i].page_id = current_page
           /\ open_tabs_list[i].description = ClickableRack(1)
           /\ open_tabs_list[i].buffer # <<>>
    /\ bar = 1
    /\ stdout = <<>>

\* how many of the list items the scan looked at it closed
Closes(scan) == Cardinality({k \in 1..Len(scan) : scan[k].closed})

\* C30: close_node ends, whatever tabs are open.  With n tabs open before it,
\* its scan starts at the head of the list; after an item it does not close
\* it looks at the next one, and it looks at the head again only after it
\* closed an item, the list then being one tab shorter; so it closes at most
\* n tabs and looks at no more than n + (n - 1) + ... + 1 items.  It ends
\* after a pass over all the tabs that remain in which it closed none, or
\* with the list empty.
C30_CloseNodeEnds ==
    last.op = "close_node"
        => LET n == Len(last.before)
               looks == Len(scanned)
           IN  /\ Closes(scanned) <= n
               /\ Len(open_tabs_list) = n - Closes(scanned)
               /\ 2 * looks <= n * (n + 1)
               /\ n > 0 => /\ looks > 0
                           /\ scanned[1].item = 1
               /\ \A k \in 1..(looks - 1) :
                      scanned[k + 1].item = IF scanned[k].closed THEN 1
                                            ELSE scanned[k].item + 1
               /\ \A k \in 1..looks :
                      scanned[k].item <= n - Closes(SubSeq(scanned, 1, k - 1))
               /\ \/ open_tabs_list = <<>> /\ (n > 0 => scanned[looks].closed)
                  \/ /\ looks >= Len(open_tabs_list)
                     /\ \A j \in 1..Len(open_tabs_list) :
                            LET k == looks - Len(open_tabs_list) + j
                            IN  /\ scanned[k].item = j
                                /\ ~scanned[k].closed
                                /\ scanned[k].description = open_tabs_list[j].description

\* close_node has closed two of three tabs: it looked at the head of the
\* list three times, the last time on its pass over the one tab left
C30_Witness ==
    /\ last.op = "close_node"
    /\ Len(last.before) = 3
    /\ Len(open_tabs_list) = 1
    /\ Closes(scanned) = 2
    /\ Cardinality({k \in 1..Len(scanned) : scanned[k].item = 1}) = 3
    /\ ~scanned[Len(scanned)].closed
    /\ ~window_closed

\* ------------------------------------------------------- C31 .. C36
\* the tags without their foreground
Unstyled(tags) ==
    [t \in 1..Len(tags) |-> [kind |-> tags[t].kind, start |-> tags[t].start,
                             end |-> tags[t].end, data |-> tags[t].data]]

\* C31: a record rendered disabled and the same record rendered enabled give
\* the same text, the same strings and Clickables and the same ranges with
\* the same bindings; only the foreground of the record's description range
\* differs, grey for the disabled record and unset for the enabled one.
\* Stated of every tab after gui_update and every record k of the store:
\* update_tab on the store with the enabled flag of k flipped differs from
\* what the tab holds in that foreground only.
C31_EnabledOnlyStyles ==
    last.op = "gui_update"
        => \A i \in 1..Len(open_tabs_list), k \in 1..Len(db) :
               LET linky_buffer == open_tabs_list[i]
                   flipped == update_tab(linky_buffer, error_toggle_disabled(db, db[k].id))
                   tags == linky_buffer.tags
               IN  /\ flipped.buffer = linky_buffer.buffer
                   /\ flipped.g_string_list = linky_buffer.g_string_list
                   /\ flipped.clickables = linky_buffer.clickables
                   /\ Unstyled(flipped.tags) = Unstyled(tags)
                   /\ \A t \in 1..Len(tags) :
                          IF tags[t].kind = "description" /\ tags[t].data = db[k].id
                          THEN /\ tags[t].foreground = IF db[k].enabled THEN "none" ELSE "grey"
                               /\ flipped.tags[t].foreground
                                      = IF db[k].enabled THEN "grey" ELSE "none"
                          ELSE flipped.tags[t].foreground = tags[t].foreground

\* gui_update has just rendered on the All tab two records that differ in
\* their enabled flag only (and their ids): the two lines are the same text,
\* the description range of the first is unset, that of the second grey
C31_Witness ==
    /\ last.op = "gui_update"
    /\ open_tabs_list[1].description = ClickableAll
    /\ Len(db) = 2
    /\ db[1].enabled /\ ~db[2].enabled
    /\ db[2] = [db[1] EXCEPT !.id = 2, !.enabled = FALSE]
    /\ db[1].message = Overheat
    /\ open_tabs_list[1].buffer = LineAsClaimed(db[1]) \o LineAsClaimed(db[1])
    /\ DescriptionsTagged(open_tabs_list[1])[1].foreground = "none"
    /\ DescriptionsTagged(open_tabs_list[1])[2].foreground = "grey"

\* C32: a public method (update, get_error_count, show_page, close_node)
\* called with self = NULL ends the process with a message: it does not
\* return silently and does not go on.
C32_NullSelfAborts ==
    last.op = "null_self" => (window_closed /\ stdout # <<>>)

\* C33: in every state open_tabs_list is in ascending order of page_id, the
\* tab at list position i (counted from 0) having page_id i; and so the
\* tabs that close_tab decrements, those from the closed link on, are
\* exactly the tabs whose page_id was above the closed one: after the close
\* button of page k, a remaining tab has its page_id lowered by 1 if it was
\* above k and unchanged if it was below.
C33_ListOrderedByPageId ==
    /\ [](\A i \in 1..Len(open_tabs_list) : open_tabs_list[i].page_id = i - 1)
    /\ [][last'.op = "close_button"
            => \A i \in 1..Len(open_tabs_list) :
                   LET was == open_tabs_list[i].page_id
                   IN  \/ was = last'.arg
                       \/ \E j \in 1..Len(open_tabs_list') :
                              /\ open_tabs_list'[j].description = open_tabs_list[i].description
                              /\ open_tabs_list'[j].page_id
                                     = IF was > last'.arg THEN was - 1 ELSE was]_vars

\* the close button of page 0 was pressed with three tabs open: the two tabs
\* that followed it in the list remain, with page ids 0 and 1
C33_Witness ==
    /\ last.op = "close_button"
    /\ last.arg = 0
    /\ Len(last.before) = 3
    /\ DescriptionsOf(open_tabs_list) = <<last.before[2], last.before[3]>>
    /\ open_tabs_list[1].page_id = 0
    /\ open_tabs_list[2].page_id = 1

\* how many elements of the sequence equal x
CountOf(seq, x) == Cardinality({k \in 1..Len(seq) : seq[k] = x})

\* C34: in every state every page of the notebook is the page of a tab of
\* open_tabs_list, and the link ranges of a tab's text are bound one to one
\* to the Clickables of the tab's clickables list, which are those not
\* freed: there are as many link ranges as Clickables, and as many bound to
\* any Clickable as the list holds of it, each within the text.  So an
\* event on a link of the current page reaches link_clicked with a Clickable
\* of the clickables list of the tab on that page.
C34_LinksBoundToLiveClickables ==
    /\ [](/\ \A p \in 1..Len(pages) :
                 \E i \in 1..Len(open_tabs_list) :
                     open_tabs_list[i].page_id = p - 1 /\ PageOf(open_tabs_list[i]) = pages[p]
          /\ \A i \in 1..Len(open_tabs_list) :
                 LET linky_buffer == open_tabs_list[i]
                     links == LinksOf(linky_buffer)
                     bound == [t \in 1..Len(links) |-> links[t].data]
                 IN  /\ Len(links) = Len(linky_buffer.clickables)
                     /\ \A t \in 1..Len(links) :
                            /\ CountOf(bound, bound[t])
                                   = CountOf(linky_buffer.clickables, bound[t])
                            /\ links[t].end <= Len(linky_buffer.buffer))
    /\ [][last'.op = "link_clicked"
            => LET result == find_by_id(open_tabs_list, current_page)
               IN  /\ result # 0
                   /\ CountOf(open_tabs_list[result].clickables, last'.arg.data) > 0]_vars

\* "Hide Disabled" was picked with two tabs showing a disabled error, which
\* is not shown now: the text of both tabs, their ranges and their
\* Clickables are gone; no range is left bound to a Clickable that was freed
C34_Witness ==
    /\ last.op = "hide_disabled"
    /\ ~show_disabled
    /\ Len(db) = 1 /\ ~db[1].enabled
    /\ Len(open_tabs_list) = 2
    /\ \A i \in 1..Len(open_tabs_list) :
           /\ refreshed[i].freed.clickables >= 2
           /\ open_tabs_list[i].tags = <<>>
           /\ open_tabs_list[i].clickables = <<>>
           /\ open_tabs_list[i].buffer = <<>>

\* C35: once no tab described as ALL is open, no step of the user (links,
\* descriptions, menus, close buttons, tabs picked) and no update opens one:
\* every link range is bound to a Clickable of type RACK, CHASSIS or VALVE,
\* and "Show" of the Nodes menu shows a page of type CHASSIS.
C35_AllNeverReopened ==
    /\ [](\A i \in 1..Len(open_tabs_list) :
              \A t \in 1..Len(open_tabs_list[i].tags) :
                  open_tabs_list[i].tags[t].kind = "link"
                      => open_tabs_list[i].tags[t].data.type \in {"RACK", "CHASSIS", "VALVE"})
    /\ [][AllTabs(open_tabs_list) = {} => AllTabs(open_tabs_list') = {}]_vars
    /\ [][last'.op = "node_show"
            => \E i \in 1..Len(open_tabs_list') :
                   /\ open_tabs_list'[i].description.type = "CHASSIS"
                   /\ open_tabs_list'[i].page_id = current_page']_vars

\* with the All tab closed, button 1 was pressed on a link and a tab was
\* opened: no tab described as ALL is open
C35_Witness ==
    /\ last.op = "link_clicked"
    /\ last.arg.event = LeftPress
    /\ ClickableAll \notin Range(last.before)
    /\ Len(open_tabs_list) = Len(last.before) + 1
    /\ AllTabs(open_tabs_list) = {}
    /\ ~window_closed

\* C36: "Delete" of node (rack, chassis) closes the tabs of the node before
\* it updates the gui: the tabs the update refreshes are the tabs left, in
\* order, none of them described as CHASSIS of that rack and chassis, and
\* each holds what update_tab makes of it from the errors shown of the store
\* after the removal.  When no tab is left the notebook has no page and no
\* current page, the close of the window is requested, and the status bar
\* is on the failure-to-count message, "bad current page" printed last.
C36_NodeDeleteClosesThenRefreshes ==
    [][last'.op = "node_delete"
        => /\ \A i \in 1..Len(open_tabs_list') :
                  ~(/\ open_tabs_list'[i].description.type = "CHASSIS"
                    /\ open_tabs_list'[i].description.rack_num = last'.arg[1]
                    /\ open_tabs_list'[i].description.chassis_num = last'.arg[2])
           /\ [i \in 1..Len(refreshed') |-> refreshed'[i].linky_buffer.description]
                  = DescriptionsOf(open_tabs_list')
           /\ AllUpdated(open_tabs_list', shown(db', show_disabled))
           /\ <<"Node ", last'.arg[1], last'.arg[2], " removed">> \in Range(stdout')
           /\ open_tabs_list' = <<>>
                  => /\ pages' = <<>>
                     /\ current_page' = -1
                     /\ window_closed'
                     /\ bar' = -1
                     /\ StatusMessage(bar') = FailureToCount
                     /\ stdout'[Len(stdout')] = <<"bad current page">>]_vars

\* node 3, 5 has just been deleted with the tabs of the chassis and of one
\* of its valves the only ones open: no tab is left and the status bar is
\* on the failure-to-count message
C36_Witness ==
    /\ last.op = "node_delete"
    /\ last.arg = <<3, 5>>
    /\ Len(last.before) = 2
    /\ \E i, j \in 1..2 : last.before[i].type = "CHASSIS" /\ last.before[j].type = "VALVE"
    /\ open_tabs_list = <<>>
    /\ pages = <<>>
    /\ bar = -1
    /\ window_closed

====
